---- MODULE Spec2Model ----
(***************************************************************************)
(* A model of one HART of the hikami hypervisor: HS-mode initialisation    *)
(* (hstart / vsmode_setup / hart_entry), the VS -> HS exception dispatcher *)
(* (trap_exception and the handlers it calls), the forward-to-guest        *)
(* protocol and the Zicfiss emulation, together with the HYPERVISOR_DATA   *)
(* spinlock these paths take.                                              *)
(*                                                                         *)
(* 64-bit quantities (registers, CSRs) are little-endian tuples of four    *)
(* 16-bit limbs, so that u64 arithmetic wraps at 2^64 and the u64 -> u32   *)
(* conversion of the store path is the conversion the code performs.       *)
(***************************************************************************)
EXTENDS Integers, Sequences, FiniteSets, TLC

\* ------------------------------------------------------------------------
\* u64 values
\* ------------------------------------------------------------------------

\* One limb holds 16 bits.
LimbBase == 2^16

\* The u64 whose value is n (n below 2^31).
W(n) == <<n % LimbBase, (n \div LimbBase) % LimbBase, 0, 0>>

\* The u64 with the four given 16-bit limbs, most significant first.
W4(l3, l2, l1, l0) == <<l0, l1, l2, l3>>

\* u64 wrapping addition.
Add64(a, b) ==
    LET s1 == a[1] + b[1]
        s2 == a[2] + b[2] + (s1 \div LimbBase)
        s3 == a[3] + b[3] + (s2 \div LimbBase)
        s4 == a[4] + b[4] + (s3 \div LimbBase)
    IN  <<s1 % LimbBase, s2 % LimbBase, s3 % LimbBase, s4 % LimbBase>>

\* Bitwise complement of a u64.
Not64(a) == <<LimbBase - 1 - a[1], LimbBase - 1 - a[2],
              LimbBase - 1 - a[3], LimbBase - 1 - a[4]>>

\* u64 wrapping subtraction.
Sub64(a, b) == Add64(a, Add64(Not64(b), W(1)))

\* Bit k (0..63) of a u64.
Bit64(a, k) == (a[(k \div 16) + 1] \div (2 ^ (k % 16))) % 2

\* Bitwise and / or of two 16-bit limbs.
RECURSIVE LimbAnd(_, _, _)
LimbAnd(x, y, n) ==
    IF n = 0 THEN 0
    ELSE ((x % 2) * (y % 2)) + 2 * LimbAnd(x \div 2, y \div 2, n - 1)

And64(a, b) == <<LimbAnd(a[1], b[1], 16), LimbAnd(a[2], b[2], 16),
                 LimbAnd(a[3], b[3], 16), LimbAnd(a[4], b[4], 16)>>

Or64(a, b) == Not64(And64(Not64(a), Not64(b)))

\* usize << 2 (htval holds the guest physical address shifted right by 2).
Shl2(a) == LET d == Add64(a, a) IN Add64(d, d)

\* u32 -> u64 with sign extension.
U64FromU32_SignExtend(v) ==
    IF v[2] >= 32768 THEN W4(65535, 65535, v[2], v[1]) ELSE W4(0, 0, v[2], v[1])

\* u64::from(u32): zero extension.
U64FromU32(v) == W4(0, 0, v[2], v[1])

\* u64 -> u32 with try_into(): Ok exactly when the upper 32 bits are zero.
TryIntoU32(v) ==
    IF v[3] = 0 /\ v[4] = 0 THEN [ok |-> TRUE, value |-> <<v[1], v[2]>>]
    ELSE [ok |-> FALSE, value |-> <<0, 0>>]

\* a <= b as unsigned 64-bit numbers.
Le64(a, b) ==
    \/ a[4] < b[4]
    \/ a[4] = b[4] /\ a[3] < b[3]
    \/ a[4] = b[4] /\ a[3] = b[3] /\ a[2] < b[2]
    \/ a[4] = b[4] /\ a[3] = b[3] /\ a[2] = b[2] /\ a[1] <= b[1]

\* ------------------------------------------------------------------------
\* Program constants
\* ------------------------------------------------------------------------

MAX_HART_NUM == 8

\* SBI extension ids matched by sbi_vs_mode_handler.
EID_BASE == 16
EID_RFNC == 1380339267
EID_FWFT == 1180128852

\* scause exception codes.
IllegalInstruction == 2
SupervisorEnvCall == 9
EcallFromVsMode == 10
InstructionGuestPageFault == 20
LoadGuestPageFault == 21
VirtualInstruction == 22
StoreAmoGuestPageFault == 23

\* Zicfiss: software-check exception and shadow-stack fault.
SOFTWARE_CHECK_EXCEPTION == 18
SHADOW_STACK_FAULT == 3

\* The codes the riscv crate's scause::Exception names; every other code is
\* Exception::Unknown.
RiscvCrateCodes == {0, 1, 2, 3, 4, 5, 6, 7, 8, 9, 12, 13, 15}

\* The codes HvException names (the match on it has exactly these arms).
HvExceptionCodes == {EcallFromVsMode, InstructionGuestPageFault, LoadGuestPageFault,
                     VirtualInstruction, StoreAmoGuestPageFault}

\* The guest's DRAM base, 0x8000_0000: the entry point load_guest_elf returns.
GuestDramBase == W4(0, 0, 32768, 0)

\* sstatus after set_sum() and set_spp(Supervisor) on RV64 (UXL = 2).
InitSstatus == W4(0, 2, 4, 256)

\* ------------------------------------------------------------------------
\* Bounds of the model
\* ------------------------------------------------------------------------

\* How many instructions that change the Zicfiss state one run emulates
\* (ssp is otherwise an unbounded counter).
MaxZicfissOps == 2

\* ------------------------------------------------------------------------
\* Inputs: what the guest and the hardware present at a trap
\* ------------------------------------------------------------------------

Regs == 1..31

\* Distinct sentinel values in x1..x31.
Sentinel == [r \in Regs |-> W(4096 + r)]

\* -2 as u64 (SBI_ERR_NOT_SUPPORTED cast with `as u64`).
MinusTwo == Not64(W(1))

\* Exception codes a trap may carry: those the riscv crate names and those
\* HvException names.
Causes == RiscvCrateCodes \cup HvExceptionCodes

\* What the guest is executing at a trap: its pc, the sstatus the trap saves
\* (SPP = 1 from VS-mode, SPP = 0 from VU-mode) and its own vstvec.
GuestFrames ==
    {[sepc |-> W(4096), sstatus |-> W4(0, 2, 4, 256), vstvec |-> W4(0, 0, 32768, 256)],
     [sepc |-> W4(0, 0, 32768, 8194), sstatus |-> W4(0, 2, 4, 0),
      vstvec |-> W4(65535, 65535, 32768, 512)],
     [sepc |-> W4(0, 0, 32768, 8194), sstatus |-> W4(0, 2, 4, 256),
      vstvec |-> W4(65535, 65535, 32768, 512)]}

\* Extension and function ids of an ecall.
EcallIds == {<<EID_BASE, 0>>, <<EID_BASE, 1>>, <<EID_BASE, 3>>, <<EID_RFNC, 0>>,
             <<EID_RFNC, 1>>, <<EID_FWFT, 0>>, <<1414090053, 0>>, <<0, 1>>}

\* Values of the source register of a guest store: two that fit 32 bits (the
\* second is u32::MAX) and one that does not.
StoreValues == {W(5), W4(0, 0, 65535, 65535), W4(0, 1, 0, 5)}

\* ------------------------------------------------------------------------
\* Instructions
\* ------------------------------------------------------------------------

\* Option::None for a register field of a decoded instruction.
None == 32

\* The 32-bit words of `lw rd, 0(x0)` and `sw rs2, 0(x0)`: the form htinst
\* gives a faulting load or store (rs1 replaced by the address offset).
EncLoad(rd) == (2 * 4096) + (rd * 128) + 3
EncStore(rs2) == (rs2 * (2 ^ 20)) + (2 * 4096) + 35

\* htinst of a compressed instruction: the expanded word with bit 1 cleared.
Compressed(word) == word - 2

\* value | 0b10
OrBit1(v) == IF (v \div 2) % 2 = 1 THEN v ELSE v + 2

\* Instruction::try_from for the load and store words; anything else is a
\* decoding error.
Decode(v) ==
    LET opcode == v % 128 IN
    IF opcode = 3
    THEN [ok |-> TRUE, rd |-> (v \div 128) % 32, rs2 |-> None]
    ELSE IF opcode = 35
    THEN [ok |-> TRUE, rd |-> None, rs2 |-> (v \div (2 ^ 20)) % 32]
    ELSE [ok |-> FALSE, rd |-> None, rs2 |-> None]

\* htinst values of a load / store guest-page fault: a full-size and a
\* compressed instruction, and zero (no transformed instruction provided).
LoadHtinsts == {EncLoad(5), Compressed(EncLoad(10)), 0}
StoreHtinsts == {EncStore(6), Compressed(EncStore(6)), 0}

\* Instructions that raise an illegal-instruction exception, as decoded.
\* For Zicsr instructions raki keeps the CSR number in rs2 and, for the
\* immediate variants, the immediate in rs1.
Inst(opc, rd, rs1, rs2, len) ==
    [opc |-> opc, rd |-> rd, rs1 |-> rs1, rs2 |-> rs2, len |-> len]

CSR_SSP == 17
CSR_SENVCFG == 266

ZicfissOpcodes == {"SSPUSH", "C_SSPUSH", "SSPOPCHK", "C_SSPOPCHK", "SSRDP",
                   "SSAMOSWAP_W", "SSAMOSWAP_D"}
ZicsrOpcodes == {"CSRRW", "CSRRS", "CSRRC", "CSRRWI", "CSRRSI", "CSRRCI"}

IllegalInsts ==
    {Inst("SSPUSH", None, None, 5, 4), Inst("C_SSPUSH", 1, None, None, 2),
     Inst("SSPOPCHK", None, 5, None, 4), Inst("C_SSPOPCHK", 5, None, None, 2),
     Inst("SSRDP", 7, None, None, 4), Inst("SSAMOSWAP_D", 7, 5, 6, 4)}
    \cup {Inst(o, 7, 5, CSR_SSP, 4) : o \in {"CSRRW", "CSRRS", "CSRRC"}}
    \cup {Inst(o, 7, 8, CSR_SSP, 4) : o \in {"CSRRWI", "CSRRSI", "CSRRCI"}}
    \cup {Inst(o, 7, 6, CSR_SENVCFG, 4) : o \in {"CSRRW", "CSRRS", "CSRRC"}}
    \cup {Inst(o, 7, 8, CSR_SENVCFG, 4) : o \in {"CSRRSI", "CSRRCI"}}
    \cup {Inst("OTHER", None, None, None, 4)}

\* Instructions that raise a virtual-instruction exception.
VirtualInsts == {Inst("RDTIME", 5, None, None, 4), Inst("OTHER", None, None, None, 4)}

NoInst == Inst("NONE", None, None, None, 4)

\* ------------------------------------------------------------------------
\* Devices and the SBI server
\* ------------------------------------------------------------------------

\* The PLIC region [0x0c00_0000, 0x0c60_0000).
PlicBase == W4(0, 0, 3072, 0)
PlicEnd == W4(0, 0, 3168, 0)

InPlic(addr) == Le64(PlicBase, addr) /\ addr # PlicEnd /\ Le64(addr, PlicEnd)

DeviceEmulateErrors == {"InvalidAddress", "InvalidContextId", "ReservedRegister"}

\* u32 register values the PLIC emulator may return.
PlicValues == {<<7, 0>>, <<65535, 65535>>}

\* Plic::emulate_read: the possible results for a fault address.
EmulateRead(addr) ==
    IF InPlic(addr)
    THEN {[ok |-> TRUE, value |-> v, err |-> ""] : v \in PlicValues}
         \cup {[ok |-> FALSE, value |-> <<0, 0>>, err |-> e] :
                  e \in {"InvalidContextId", "ReservedRegister"}}
    ELSE {[ok |-> FALSE, value |-> <<0, 0>>, err |-> "InvalidAddress"]}

\* Plic::emulate_write: the possible results for a fault address.
EmulateWrite(addr, value) ==
    IF InPlic(addr)
    THEN {[ok |-> TRUE, err |-> ""]}
         \cup {[ok |-> FALSE, err |-> e] : e \in {"InvalidContextId", "ReservedRegister"}}
    ELSE {[ok |-> FALSE, err |-> "InvalidAddress"]}

\* htval values of a guest-page fault: the claim register of PLIC context 0
\* (0x0c20_0004 >> 2) and an address no device owns (0x4000_0000 >> 2).
FaultHtvals == {W4(0, 0, 776, 1), W4(0, 0, 4096, 0)}

\* The interrupt sources of the model and the priorities a source may have.
PlicIrqs == {7, 9}
PlicPriorities == {0, 1, 2}

\* The context after reset: nothing pending, nothing enabled, nothing
\* claimed.  `last` is the last access: its kind, the value read or written
\* and, for a claim, whether one source alone was pending and enabled;
\* `tick` tells one access from the next.
NoAccess == [op |-> "none", value |-> 0, alone |-> FALSE]
PlicReset ==
    [pending |-> {}, enables |-> {}, priority |-> [n \in PlicIrqs |-> 0],
     current_claim |-> 0, last |-> NoAccess, tick |-> 0]

\* The sources that are pending and enabled, and the one a claim selects:
\* that of the highest priority, the lowest id first; 0 when there is none.
PlicCandidates(p) == p.pending \cap p.enables
PlicSelect(p) ==
    IF PlicCandidates(p) = {} THEN 0
    ELSE CHOOSE n \in PlicCandidates(p) :
             \A m \in PlicCandidates(p) :
                 \/ p.priority[m] < p.priority[n]
                 \/ p.priority[m] = p.priority[n] /\ n <= m

\* A claim that leaves the pending bit set.
plic_claim_KeepPending(p) ==
    LET n == PlicSelect(p)
        access == [op |-> "claim", value |-> n,
                   alone |-> Cardinality(PlicCandidates(p)) = 1]
    IN  IF n = 0 THEN [p EXCEPT !.last = access, !.tick = 1 - @]
        ELSE [p EXCEPT !.current_claim = n, !.last = access, !.tick = 1 - @]

\* Plic::emulate_read of the claim register: select, clear the pending
\* bit, record the source as current_claim and return it.
plic_claim(p) ==
    LET n == PlicSelect(p)
        access == [op |-> "claim", value |-> n,
                   alone |-> Cardinality(PlicCandidates(p)) = 1]
    IN  IF n = 0 THEN [p EXCEPT !.last = access, !.tick = 1 - @]
        ELSE [p EXCEPT !.pending = @ \ {n}, !.current_claim = n, !.last = access,
                       !.tick = 1 - @]

\* Plic::emulate_write of the claim/complete register: clear current_claim.
plic_complete(p, value) ==
    [p EXCEPT !.current_claim = 0,
              !.last = [op |-> "complete", value |-> value, alone |-> FALSE],
              !.tick = 1 - @]

\* SbiRet of the three handlers (error, value).
SbiRet(error, value) == [error |-> error, value |-> value]

sbi_base_handler(func_id) ==
    IF func_id = W(0) THEN SbiRet(W(0), W(1))
    ELSE IF func_id = W(1) THEN SbiRet(W(0), W(255))
    ELSE SbiRet(W(0), W(1))

sbi_rfnc_handler(func_id, arguments) == SbiRet(W(0), W(0))

sbi_fwft_handler(func_id, arguments) == SbiRet(MinusTwo, W(0))

\* ------------------------------------------------------------------------
\* Memory maps and the G-stage page table (Sv39x4)
\* ------------------------------------------------------------------------

\* Size of the memory area a page points to.
PAGE_SIZE == 4096

\* PteFlag: the bits of the flag byte of a page table entry.
Valid == 1
Read == 2
Write == 4
Exec == 8
User == 16
Accessed == 64
Dirty == 128

\* PTE_FLAGS_FOR_DEVICE, and the flags of the guest's tail map and of a
\* segment with p_flags = 0b111.
PTE_FLAGS_FOR_DEVICE == Dirty + Accessed + Write + Read + User + Valid
PteFlagsRwx == Dirty + Accessed + Exec + Write + Read + User + Valid

\* PageTableLevel: Lv1GB = 2, Lv2MB = 1, Lv4KB = 0.
Lv1GB == 2
Lv2MB == 1
Lv4KB == 0

\* No level fits the rest of a range.
NoLevel == 3

\* A faulty PageTableLevel::size: the 1 GiB level has the 2 MiB size.
size_NoGiB(level) == IF level = Lv4KB THEN 4096 ELSE 2097152

\* PageTableLevel::size.
size(level) ==
    CASE level = Lv1GB -> 1073741824
      [] level = Lv2MB -> 2097152
      [] level = Lv4KB -> 4096

\* An address (usize) is the pair <<page number, offset in the page>>, that
\* is page number * PAGE_SIZE + offset: addresses reach 0xffff_ffff.
Address(page, offset) == <<page, offset>>

\* a + d, for d a pair <<pages, bytes>>.
AddrOffset(a, d) ==
    LET o == a[2] + d[2]
    IN  <<a[1] + d[1] + (o \div PAGE_SIZE), o % PAGE_SIZE>>

\* a - b for a >= b, as a pair <<pages, bytes>>.
AddrSub(a, b) ==
    IF a[2] >= b[2] THEN <<a[1] - b[1], a[2] - b[2]>>
    ELSE <<a[1] - b[1] - 1, a[2] + PAGE_SIZE - b[2]>>

\* address + n bytes.
AddrAdd(a, n) == AddrOffset(a, <<n \div PAGE_SIZE, n % PAGE_SIZE>>)

\* a < b.
AddrLt(a, b) == a[1] < b[1] \/ (a[1] = b[1] /\ a[2] < b[2])

\* a % n = 0, for n a multiple of PAGE_SIZE.
Aligned(a, n) == a[2] = 0 /\ a[1] % (n \div PAGE_SIZE) = 0

\* MemoryMap::new(virt, phys, flags): ranges are start..end, end excluded.
MemoryMap(virt_start, virt_end, phys_start, phys_end, flags) ==
    [virt |-> [start |-> virt_start, end |-> virt_end],
     phys |-> [start |-> phys_start, end |-> phys_end],
     flags |-> flags]

\* An identity map of [start, end).
IdentityMap(start, end, flags) == MemoryMap(start, end, start, end, flags)

\* PageTableEntry::new: ppn << 10 | flags (flags is a u8).
PageTableEntry_new(ppn, flags) == ppn * 1024 + flags

\* A faulty PageTableEntry::already_created: no entry counts as created.
already_created_Never(entry) == FALSE

\* PageTableEntry::already_created: self.0 & Valid == 1.
already_created(entry) == entry % 2 = 1

\* A faulty PageTableEntry::pte: self.0 >> 12.
pte_Shift12(entry) == entry \div 4096

\* PageTableEntry::pte: self.0 >> 10.
pte(entry) == entry \div 1024

\* An entry is a leaf when any of R, W, X is set.
IsLeaf(entry) == (entry \div Read) % 8 # 0

\* GuestPhysicalAddress::vpn.
vpn(a, index) ==
    CASE index = 2 -> (a[1] \div 262144) % 2048
      [] index = 1 -> (a[1] \div 512) % 512
      [] index = 0 -> a[1] % 512

\* HostPhysicalAddress::page_number / PageTableAddress::page_number.
page_number(a) == a[1]

\* The entry at an index of the table in the page `node`; 0 where nothing
\* has been written.
ReadEntry(table, node, index) ==
    IF <<node, index>> \in DOMAIN table THEN table[<<node, index>>] ELSE 0

WriteEntry(table, node, index, entry) ==
    [k \in DOMAIN table \cup {<<node, index>>} |->
        IF k = <<node, index>> THEN entry ELSE table[k]]

\* page_table_start of HART 0: 0x9010_0000, 16 KiB aligned.
PageTableStart == Address(590080, 0)

\* PageBlock::alloc: the k-th page of the heap, which starts at 0x9020_0000.
PageBlockAlloc(k) == 590336 + k

\* The state of the engine: the table memory, the pages allocated so far
\* and whether it has hit a fatal error.
EmptyTable == [table |-> <<>>, allocated |-> 0, fatal |-> FALSE]

\* Step 3 of the mapping algorithm: descend from `node` at `level` to
\* `target`, allocating missing nodes, and write the leaf.  An entry that is
\* already valid is accepted when it is the very same leaf and fatal otherwise.
RECURSIVE MapChunk(_, _, _, _, _, _, _)
MapChunk(st, node, level, target, start, host, flags) ==
    LET index == vpn(start, level)
        entry == ReadEntry(st.table, node, index)
    IN  IF level = target
        THEN LET leaf == PageTableEntry_new(page_number(host), flags)
             IN  IF ~already_created(entry)
                 THEN [st EXCEPT !.table = WriteEntry(@, node, index, leaf)]
                 ELSE IF entry = leaf THEN st
                 ELSE [st EXCEPT !.fatal = TRUE]
        ELSE IF ~already_created(entry)
        THEN LET next == PageBlockAlloc(st.allocated)
                 st1 == [st EXCEPT
                            !.table = WriteEntry(@, node, index,
                                                 PageTableEntry_new(next, Valid)),
                            !.allocated = @ + 1]
             IN  MapChunk(st1, next, level - 1, target, start, host, flags)
        ELSE IF IsLeaf(entry) THEN [st EXCEPT !.fatal = TRUE]
        ELSE MapChunk(st, pte(entry), level - 1, target, start, host, flags)

\* Step 2: the coarsest level whose page size divides both addresses and is
\* not more than what remains of the range.
BestLevel(start, host, remaining) ==
    LET Fits(level) == /\ Aligned(start, size(level))
                       /\ Aligned(host, size(level))
                       /\ remaining[1] >= size(level) \div PAGE_SIZE
    IN  IF Fits(Lv1GB) THEN Lv1GB
        ELSE IF Fits(Lv2MB) THEN Lv2MB
        ELSE IF Fits(Lv4KB) THEN Lv4KB
        ELSE NoLevel

\* Steps 1 to 4 for one map, from `start` on.
RECURSIVE MapFrom(_, _, _, _)
MapFrom(st, root, m, start) ==
    LET host == AddrOffset(m.phys.start, AddrSub(start, m.virt.start))
        remaining == AddrSub(m.virt.end, start)
        level == IF AddrLt(start, m.virt.end) THEN BestLevel(start, host, remaining)
                 ELSE NoLevel
    IN  IF st.fatal \/ level = NoLevel THEN st
        ELSE MapFrom(MapChunk(st, page_number(root), Lv1GB, level, start, host, m.flags),
                     root, m, AddrAdd(start, size(level)))

\* Bad input: a range that is not page-aligned, ranges of different
\* lengths, or a root that is not 16 KiB aligned.
BadInput(root, m) ==
    \/ ~Aligned(root, 4 * PAGE_SIZE)
    \/ ~Aligned(m.virt.start, PAGE_SIZE) \/ ~Aligned(m.virt.end, PAGE_SIZE)
    \/ ~Aligned(m.phys.start, PAGE_SIZE) \/ ~Aligned(m.phys.end, PAGE_SIZE)
    \/ AddrLt(m.virt.end, m.virt.start)
    \/ AddrSub(m.virt.end, m.virt.start) # AddrSub(m.phys.end, m.phys.start)

\* sv39x4::generate_page_table(root, maps, false): the maps in order; bad
\* input and a conflicting entry are fatal.
RECURSIVE generate_page_table(_, _, _)
generate_page_table(st, root, maps) ==
    IF st.fatal \/ maps = <<>> THEN st
    ELSE IF BadInput(root, Head(maps)) THEN [st EXCEPT !.fatal = TRUE]
    ELSE generate_page_table(MapFrom(st, root, Head(maps), Head(maps).virt.start),
                             root, Tail(maps))

\* The walk algorithm: the translation of the address a, or a page fault.
PageFault == [fault |-> TRUE, addr |-> Address(0, 0), flags |-> 0]

RECURSIVE walk(_, _, _, _)
walk(table, node, level, a) ==
    LET entry == ReadEntry(table, node, vpn(a, level))
        pages == size(level) \div PAGE_SIZE
    IN  IF ~already_created(entry) THEN PageFault
        ELSE IF IsLeaf(entry)
        THEN IF pte(entry) % pages # 0 THEN PageFault
             ELSE [fault |-> FALSE,
                   addr |-> Address(pte(entry) + (a[1] % pages), a[2]),
                   flags |-> entry % 1024]
        ELSE IF level = Lv4KB THEN PageFault
        ELSE walk(table, pte(entry), level - 1, a)

\* ------------------------------------------------------------------------
\* The memory maps the initialisation hands to the engine
\* ------------------------------------------------------------------------

\* The type of a loadable segment, and 0xffff_ffff, the end of the tail map.
PT_LOAD == 1
TailEnd == Address(1048575, 4095)

\* The closure align_size without its rounding.
align_size_NoRounding(sz, align) == sz

\* The closure align_size: (size + (align - 1)) & !(align - 1), for align a
\* power of two.
align_size(sz, align) == ((sz + (align - 1)) \div align) * align

\* The match on p_flags without the User flag.
segment_flags_NoUser(p_flags) ==
    LET f == p_flags % 8
    IN  CASE f = 4 -> Dirty + Accessed + Read + Valid
          [] f = 5 -> Dirty + Accessed + Exec + Read + Valid
          [] f = 6 -> Dirty + Accessed + Write + Read + Valid
          [] f = 7 -> Dirty + Accessed + Exec + Write + Read + Valid
          [] OTHER -> 0

\* The match on p_flags & 0b111; 0 stands for the arm that panics with
\* "unsupported flags".
segment_flags(p_flags) ==
    LET f == p_flags % 8
    IN  CASE f = 4 -> Dirty + Accessed + Read + User + Valid
          [] f = 5 -> Dirty + Accessed + Exec + Read + User + Valid
          [] f = 6 -> Dirty + Accessed + Write + Read + User + Valid
          [] f = 7 -> PteFlagsRwx
          [] OTHER -> 0

\* The Default of last_region and of the vector of maps.
NoMaps == [memory_map |-> <<>>,
           last_region |-> [start |-> Address(0, 0), end |-> Address(0, 0)],
           panic |-> FALSE]

\* The loop of setup_g_stage_page_table_from_elf over the program headers:
\* one identity map for each PT_LOAD segment with a non-zero file size.
RECURSIVE segment_maps(_, _, _)
segment_maps(guest_base_addr, headers, acc) ==
    IF headers = <<>> \/ acc.panic THEN acc
    ELSE LET prog_header == Head(headers)
             region_start == AddrAdd(guest_base_addr, prog_header.p_paddr)
             region_end == AddrAdd(region_start,
                                   align_size(prog_header.p_memsz, prog_header.p_align))
             flags == segment_flags(prog_header.p_flags)
         IN  IF prog_header.p_type = PT_LOAD /\ prog_header.p_filesz > 0
             THEN IF flags = 0 THEN [acc EXCEPT !.panic = TRUE]
                  ELSE segment_maps(guest_base_addr, Tail(headers),
                           [memory_map |-> Append(acc.memory_map,
                                IdentityMap(region_start, region_end, flags)),
                            last_region |->
                                IF AddrLt(acc.last_region.end, region_end)
                                THEN [start |-> region_start, end |-> region_end]
                                ELSE acc.last_region,
                            panic |-> FALSE])
             ELSE segment_maps(guest_base_addr, Tail(headers), acc)

\* The vector setup_g_stage_page_table_from_elf hands to generate_page_table:
\* the maps of the segments and the tail from the end of the last region to
\* 0xffff_ffff.
elf_memory_map(guest_base_addr, headers) ==
    LET r == segment_maps(guest_base_addr, headers, NoMaps)
    IN  IF r.panic THEN r
        ELSE [r EXCEPT !.memory_map =
                 Append(@, IdentityMap(r.last_region.end, TailEnd, PteFlagsRwx))]

\* load_guest_elf has not run yet.
NotLoaded == [loaded |-> FALSE, copies |-> <<>>]

\* The destination of one core::ptr::copy of load_guest_elf: guest_base_addr
\* + (p_paddr - first_segment_addr). When p_paddr is below the p_paddr of
\* the first segment the u64 subtraction overflows; a build without
\* overflow checks wraps it, and the sum wraps back to guest_base_addr -
\* (first_segment_addr - p_paddr).
copy_dst(guest_base_addr, first_segment_addr, p_paddr) ==
    IF p_paddr >= first_segment_addr
    THEN AddrAdd(guest_base_addr, p_paddr - first_segment_addr)
    ELSE LET d == first_segment_addr - p_paddr
         IN  AddrSub(guest_base_addr, <<d \div PAGE_SIZE, d % PAGE_SIZE>>)

\* The loop of load_guest_elf over the program headers: one copy of
\* p_filesz bytes for each PT_LOAD segment with a non-zero file size.
RECURSIVE segment_copies(_, _, _)
segment_copies(guest_base_addr, first_segment_addr, headers) ==
    IF headers = <<>> THEN <<>>
    ELSE LET prog_header == Head(headers)
             rest == segment_copies(guest_base_addr, first_segment_addr, Tail(headers))
         IN  IF prog_header.p_type = PT_LOAD /\ prog_header.p_filesz > 0
             THEN <<[dst |-> copy_dst(guest_base_addr, first_segment_addr,
                                      prog_header.p_paddr),
                     count |-> prog_header.p_filesz]>> \o rest
             ELSE rest

\* Guest::load_guest_elf: first_segment_addr is the p_paddr of the first
\* program header, whatever its type. `overflow` tells that a copied
\* segment lies below it.
load_guest_elf(guest_base_addr, headers) ==
    LET first_segment_addr == headers[1].p_paddr
    IN  [loaded |-> TRUE,
         copies |-> segment_copies(guest_base_addr, first_segment_addr, headers),
         overflow |-> \E i \in DOMAIN headers :
                          /\ headers[i].p_type = PT_LOAD
                          /\ headers[i].p_filesz > 0
                          /\ headers[i].p_paddr < first_segment_addr]

\* Device::memmap: the identity map of [base_addr, base_addr + size) with
\* the device flags.
memmap(device) ==
    IdentityMap(device.base_addr, AddrAdd(device.base_addr, device.size),
                PTE_FLAGS_FOR_DEVICE)

\* The flat_map of create_device_map: every VirtIO map twice.
RECURSIVE virtio_maps(_)
virtio_maps(virtio) ==
    IF virtio = <<>> THEN <<>>
    ELSE <<memmap(Head(virtio)), memmap(Head(virtio))>> \o virtio_maps(Tail(virtio))

\* Devices::create_device_map.
create_device_map(d) ==
    virtio_maps(d.virtio)
        \o <<memmap(d.uart), memmap(d.initrd), memmap(d.plic), memmap(d.clint),
              memmap(d.pci)>>

\* Option::None of HypervisorData::devices.
NoDevices == <<>>

\* guest_memory_begin of vsmode_setup: DRAM_BASE + hart_id *
\* DRAM_SIZE_PER_GUEST.
guest_memory_begin(hart_id) == Address(524288 + hart_id * 65536, 0)

\* The memory_region vsmode_setup gives Guest::new: guest_memory_begin ..
\* guest_memory_begin + DRAM_SIZE_PER_GUEST (256 MiB, 65536 pages).
memory_region(hart_id) ==
    [start |-> guest_memory_begin(hart_id),
     end |-> AddrAdd(guest_memory_begin(hart_id), 65536 * PAGE_SIZE)]

\* Guest::new. The context of the guest is the variable `context`.
Guest_new(id, region) == [guest_id |-> id, memory_region |-> region]

\* Guest::hart_id
Guest_hart_id(new_guest) == new_guest.guest_id

\* Option::None of a slot of HypervisorData::guest; an occupied slot is
\* <<the guest>>.
NoGuest == <<>>

\* ------------------------------------------------------------------------
\* State
\* ------------------------------------------------------------------------

VARIABLES
    pc,               \* where the HART is
    locked,           \* a guard on the HYPERVISOR_DATA spinlock is alive
    boot,             \* a0 / a1 at HS entry: [hart_id, dtb_addr]
    hypervisor_data,  \* [current_hart, devices, guest]: devices is Some or not, guest holds the slots
    context,          \* the guest context frame: [xreg, sepc, sstatus]
    csr,              \* scause, stval, htval, htinst, vsepc, vscause, vstval, vstvec, senvcfg
    fault_inst,       \* the instruction stval decodes to (illegal / virtual instruction)
    zicfiss,          \* [ssp, henv_sse, senv_sse]
    ss_mem,           \* shadow-stack memory: host address -> word (absent = 0)
    zicfiss_ops,      \* state-changing Zicfiss instructions emulated so far
    trap,             \* the context as saved at the last trap entry
    done,             \* what the handler of the last trap has done so far
    panic_msg,        \* the message of the panic, "" before
    ss_hist,          \* history: the last SSPUSH emulated and the SSPOPCHK after it
    init_calls,       \* history: the calls of the initialisation, in program order
    entry_csr,        \* sstatus and sepc as the asm block of hart_entry wrote them
    page_table,       \* the G-stage table: [table, allocated, fatal]
    memory_map,       \* the maps of the last call of generate_page_table
    page_table_calls, \* history: the map lists of the calls so far
    devices,          \* Option<Devices> as register_devices parsed it from the FDT
    guest_elf,        \* the program headers of the guest ELF found in the initrd
    guest_image,      \* the copies load_guest_elf has made into guest memory
    plic              \* the PLIC context of the HART and its last access

\* The variables of the HART and those of the page table engine.
init_vars == <<init_calls, entry_csr>>
hart_vars == <<pc, locked, boot, hypervisor_data, context, csr, fault_inst, zicfiss,
               ss_mem, zicfiss_ops, trap, done, panic_msg, ss_hist, init_vars>>
page_table_vars == <<page_table, memory_map, page_table_calls, devices, guest_elf,
                     guest_image>>

vars == <<hart_vars, page_table_vars, plic>>

\* A trap has been taken and its handler has done nothing yet.
Fresh == [trapped |-> TRUE, forwarded |-> FALSE, emulated |-> "none",
          sepc_updates |-> 0, plic_err |-> "", plic_value |-> <<0, 0>>]

ZeroCsr == [scause |-> 0, stval |-> W(0), htval |-> W(0), htinst |-> 0,
            vsepc |-> W(0), vscause |-> 0, vstval |-> W(0), vstvec |-> W(0),
            senvcfg |-> W(0)]

Init ==
    /\ pc = "hstart"
    /\ locked = FALSE
    /\ boot \in [hart_id : {0, 1}, dtb_addr : {0, 1}]
    /\ hypervisor_data = [current_hart |-> 0, devices |-> FALSE,
                          guest |-> [h \in 0..(MAX_HART_NUM - 1) |-> NoGuest]]
    /\ context = [xreg |-> Sentinel, sepc |-> W(0), sstatus |-> W(0)]
    /\ csr = ZeroCsr
    /\ fault_inst = NoInst
    /\ zicfiss = [ssp |-> W(0), henv_sse |-> FALSE, senv_sse |-> FALSE]
    /\ ss_mem = <<>>
    /\ zicfiss_ops = 0
    /\ trap = context
    /\ done = [Fresh EXCEPT !.trapped = FALSE]
    /\ panic_msg = ""
    /\ ss_hist = <<>>
    /\ init_calls = <<>>
    /\ entry_csr = [sstatus |-> W(0), sepc |-> W(0)]
    /\ page_table = EmptyTable
    /\ memory_map = <<>>
    /\ page_table_calls = <<>>
    /\ devices = NoDevices
    /\ guest_elf = <<>>
    /\ guest_image = NotLoaded
    /\ plic = PlicReset

\* A panic that unwinds to the exit of the trap handler.
Panic_Unwind(msg) ==
    /\ pc' = "hstrap_exit"
    /\ panic_msg' = msg

\* panic!(): print and loop in wfi.
Panic(msg) ==
    /\ pc' = "panic"
    /\ panic_msg' = msg

\* ------------------------------------------------------------------------
\* The HYPERVISOR_DATA spinlock
\* ------------------------------------------------------------------------

\* spin::Mutex::lock returns only when no guard is alive: it is not
\* reentrant, and a HART that calls it while holding a guard spins forever.
CanLock == ~locked

\* ------------------------------------------------------------------------
\* HS-mode initialisation
\* ------------------------------------------------------------------------

\* hstart: the two assertions, then vsmode_setup.
hstart ==
    /\ pc = "hstart"
    /\ IF boot.hart_id # 0 \/ boot.dtb_addr = 0
       THEN Panic("assertion failed")
       ELSE pc' = "vsmode_setup" /\ UNCHANGED panic_msg
    /\ UNCHANGED <<locked, boot, hypervisor_data, context, csr, fault_inst, zicfiss,
                   ss_mem, zicfiss_ops, trap, ss_hist, done, init_vars>>

\* vsmode_setup, line 64: take the lock.
vsmode_setup_lock ==
    /\ pc = "vsmode_setup"
    /\ CanLock
    /\ locked' = TRUE
    /\ pc' = "vsmode_setup_locked"
    /\ UNCHANGED <<boot, hypervisor_data, context, csr, fault_inst, zicfiss,
                   ss_mem, zicfiss_ops, trap, ss_hist, done, panic_msg, init_vars>>

\* register_guest storing the guest in the slot of the current HART.
register_guest_AtCurrentHart(data, new_guest) ==
    IF Guest_hart_id(new_guest) < MAX_HART_NUM
    THEN [data |-> [data EXCEPT !.guest[data.current_hart] = <<new_guest>>],
          panic |-> ""]
    ELSE [data |-> data, panic |-> "assertion failed: hart_id < MAX_HART_NUM"]

\* HypervisorData::register_guest: what it leaves and the message it
\* panics with ("" when it returns).
register_guest(data, new_guest) ==
    IF Guest_hart_id(new_guest) < MAX_HART_NUM
    THEN [data |-> [data EXCEPT !.guest[Guest_hart_id(new_guest)] = <<new_guest>>],
          panic |-> ""]
    ELSE [data |-> data, panic |-> "assertion failed: hart_id < MAX_HART_NUM"]

\* HypervisorData::guest: the guest it returns (<<>> when it panics) and
\* the message it panics with.
guest(data) ==
    IF data.guest[data.current_hart] = NoGuest
    THEN [guest |-> NoGuest, panic |-> "guest data not found"]
    ELSE [guest |-> data.guest[data.current_hart], panic |-> ""]

\* The guard's state when vsmode_setup calls hart_entry (drop at line 155).
VsmodeSetupGuardAtEnd == FALSE

\* vsmode_setup with HypervisorData::guest() called before register_guest.
vsmode_setup_calls_GuestFirst ==
    <<"register_devices", "devices", "devices", "devices",
      "setup_g_stage_page_table_from_elf", "devices", "device_mapping_g_stage",
      "hgatp::set", "hfence_gvma_all", "guest", "register_guest", "drop">>

\* vsmode_setup with the fence before the device maps are written.
vsmode_setup_calls_FenceFirst ==
    <<"register_devices", "devices", "devices", "devices",
      "setup_g_stage_page_table_from_elf", "devices", "hgatp::set",
      "hfence_gvma_all", "device_mapping_g_stage", "register_guest", "guest", "drop">>

\* The calls of vsmode_setup on HYPERVISOR_DATA, on the page table engine
\* and on the G-stage CSRs, in program order: register_devices (line 90),
\* devices() (100, 101, 109), the maps of the ELF (113), devices() and the
\* device maps (116-118), hgatp::set (121), hfence_gvma_all (122),
\* register_guest (125), guest() (145) and the drop of the guard (155).
vsmode_setup_calls ==
    <<"register_devices", "devices", "devices", "devices",
      "setup_g_stage_page_table_from_elf", "devices", "device_mapping_g_stage",
      "hgatp::set", "hfence_gvma_all", "register_guest", "guest", "drop">>

\* The calls of hart_entry before its asm block: guest() (line 165) and
\* the drop of the guard (167).
hart_entry_calls == <<"guest", "drop">>

\* One call on HypervisorData: what it leaves and the message it panics
\* with ("" when it returns).
call(data, hart_id, name) ==
    CASE name = "register_devices" ->
             [data |-> [data EXCEPT !.devices = TRUE], panic |-> ""]
      [] name = "devices" ->
             [data |-> data,
              panic |-> IF data.devices THEN "" ELSE "device data is uninitialized"]
      [] name = "register_guest" ->
             register_guest(data, Guest_new(hart_id, memory_region(hart_id)))
      [] name = "guest" ->
             [data |-> data, panic |-> guest(data).panic]
      [] OTHER -> [data |-> data, panic |-> ""]

\* The calls in order, up to the first that panics.
RECURSIVE run_calls(_, _, _, _)
run_calls(data, hart_id, calls, log) ==
    IF calls = <<>> THEN [data |-> data, log |-> log, panic |-> ""]
    ELSE LET r == call(data, hart_id, Head(calls))
         IN  IF r.panic # ""
             THEN [data |-> data, log |-> Append(log, Head(calls)), panic |-> r.panic]
             ELSE run_calls(r.data, hart_id, Tail(calls), Append(log, Head(calls)))

\* vsmode_setup, lines 66-157: register the devices, build the G-stage
\* table, set hgatp and fence, register the guest, set the context's sepc
\* to the entry point and its sstatus, drop the guard.
vsmode_setup ==
    /\ pc = "vsmode_setup_locked"
    /\ LET r == run_calls(hypervisor_data, boot.hart_id, vsmode_setup_calls, init_calls)
       IN  /\ hypervisor_data' = r.data
           /\ init_calls' = r.log
           /\ IF r.panic # ""
              THEN /\ Panic(r.panic)
                   /\ UNCHANGED <<context, locked>>
              ELSE /\ context' = [context EXCEPT !.sepc = GuestDramBase,
                                                  !.sstatus = InitSstatus]
                   /\ locked' = VsmodeSetupGuardAtEnd
                   /\ pc' = "hart_entry"
                   /\ UNCHANGED panic_msg
    /\ UNCHANGED <<boot, csr, fault_inst, zicfiss, ss_mem, zicfiss_ops, trap, ss_hist,
                   done, entry_csr>>

\* The guard's state when hart_entry reaches its asm block (drop at line 167).
HartEntryGuardAtEnd == FALSE

\* The word at sp + 8 * i of the context frame at stack_top - 272: x1..x31
\* at words 1 to 31, sepc at word 32 and sstatus at word 33.
frame_word(ctx, i) ==
    IF i = 32 THEN ctx.sepc
    ELSE IF i = 33 THEN ctx.sstatus
    ELSE ctx.xreg[i]

\* hart_entry, lines 164-225: lock, read the guest's stack top, drop; then
\* the asm block up to its sret: `ld t0, 32*8(sp); csrw sstatus, t0` and
\* `ld t1, 33*8(sp); csrw sepc, t1`, the integer registers and the swap of
\* sp with sscratch.
hart_entry ==
    /\ pc = "hart_entry"
    /\ CanLock
    /\ LET r == run_calls(hypervisor_data, boot.hart_id, hart_entry_calls, init_calls)
       IN  /\ init_calls' = r.log
           /\ IF r.panic = ""
              THEN /\ pc' = "sret"
                   /\ locked' = HartEntryGuardAtEnd
                   /\ entry_csr' = [sstatus |-> frame_word(context, 32),
                                    sepc |-> frame_word(context, 33)]
                   /\ UNCHANGED panic_msg
              ELSE /\ Panic(r.panic)
                   /\ locked' = TRUE
                   /\ UNCHANGED entry_csr
    /\ UNCHANGED <<boot, hypervisor_data, context, csr, fault_inst, zicfiss,
                   ss_mem, zicfiss_ops, trap, ss_hist, done>>

\* ------------------------------------------------------------------------
\* A trap from the guest
\* ------------------------------------------------------------------------

\* Values the guest may hold in x5 (a register it pushes, pops against, or
\* writes to ssp) and x6 (a register it writes to senvcfg, whose bit 3 is SSE).
ZicfissOperands == {<<W4(0, 0, 32784, 4096), W(8)>>, <<W(0), W(1)>>}

\* The register files a trap of the given cause is taken with.
RegFilesFor(cause) ==
    IF cause = EcallFromVsMode
    THEN {[Sentinel EXCEPT ![17] = W(id[1]), ![16] = W(id[2])] : id \in EcallIds}
    ELSE IF cause = StoreAmoGuestPageFault
    THEN {[Sentinel EXCEPT ![6] = v] : v \in StoreValues}
    ELSE IF cause = IllegalInstruction
    THEN {[Sentinel EXCEPT ![5] = o[1], ![6] = o[2]] : o \in ZicfissOperands}
    ELSE {Sentinel}

\* stval, htval, htinst and the decoded stval instruction of a trap.
StvalsFor(cause) ==
    IF cause \in {IllegalInstruction, VirtualInstruction, EcallFromVsMode,
                  InstructionGuestPageFault}
    THEN {W(0)}
    ELSE {W4(65535, 65535, 65535, 61440)}

HtvalsFor(cause) ==
    IF cause \in {LoadGuestPageFault, StoreAmoGuestPageFault, InstructionGuestPageFault}
    THEN FaultHtvals ELSE {W(0)}

HtinstsFor(cause) ==
    IF cause = LoadGuestPageFault THEN LoadHtinsts
    ELSE IF cause = StoreAmoGuestPageFault THEN StoreHtinsts
    ELSE {0}

\* The instructions whose emulation may change the Zicfiss state.
ChangesZicfiss(inst) ==
    inst.opc \in {"SSPUSH", "C_SSPUSH", "SSPOPCHK", "C_SSPOPCHK"} \cup ZicsrOpcodes

InstsFor(cause) ==
    IF cause = IllegalInstruction
    THEN {i \in IllegalInsts : ChangesZicfiss(i) => zicfiss_ops < MaxZicfissOps}
    ELSE IF cause = VirtualInstruction THEN VirtualInsts
    ELSE {NoInst}

\* The guest runs until it raises an exception: the hardware sets the trap
\* CSRs and hstrap_vector saves the guest's registers, sepc and sstatus in
\* the context frame, then calls the dispatcher.  vsepc, vscause and vstval
\* are the guest's own sepc, scause and stval: no handler reads them, and
\* the guest is taken to have cleared them.  What the guest has done to its
\* shadow stack since the last trap is unknown: the history starts afresh.
Trap ==
    /\ \E cause \in Causes, g \in GuestFrames :
         \E regs \in RegFilesFor(cause), tval \in StvalsFor(cause),
            hv \in HtvalsFor(cause), hi \in HtinstsFor(cause), inst \in InstsFor(cause) :
           /\ context' = [xreg |-> regs, sepc |-> g.sepc, sstatus |-> g.sstatus]
           /\ csr' = [csr EXCEPT !.scause = cause, !.stval = tval, !.htval = hv,
                                 !.htinst = hi, !.vstvec = g.vstvec,
                                 !.vsepc = W(0), !.vscause = 0, !.vstval = W(0)]
           /\ fault_inst' = inst
           /\ zicfiss_ops' = IF ChangesZicfiss(inst) THEN zicfiss_ops + 1 ELSE zicfiss_ops
    /\ trap' = context'
    /\ done' = Fresh
    /\ pc' = "trap_exception"
    /\ ss_hist' = <<>>
    /\ UNCHANGED <<locked, boot, hypervisor_data, zicfiss, ss_mem, panic_msg>>

\* hart_entry, line 226: the sret into the guest, which runs until its
\* first trap.
hart_entry_sret ==
    /\ pc = "sret"
    /\ Trap
    /\ init_calls' = Append(init_calls, "sret")
    /\ UNCHANGED entry_csr

\* scause::Exception::from of the riscv crate, and HvException::from for
\* the codes it leaves Unknown.
Exception(code) ==
    IF code \in RiscvCrateCodes THEN
        (IF code = IllegalInstruction THEN "IllegalInstruction"
         ELSE IF code = SupervisorEnvCall THEN "SupervisorEnvCall"
         ELSE "Other")
    ELSE "Unknown"

\* The arm of the inner match (lines 91-157) that HvException::from(code)
\* selects.
HvArm(code) ==
    IF code = EcallFromVsMode THEN "EcallFromVsMode"
    ELSE IF code = InstructionGuestPageFault THEN "InstructionGuestPageFault"
    ELSE IF code = LoadGuestPageFault THEN "LoadGuestPageFault"
    ELSE IF code = StoreAmoGuestPageFault THEN "StoreAmoGuestPageFault"
    ELSE "virtual_instruction"

\* The match with the arm of UserEnvCall (8) merged into that of
\* SupervisorEnvCall (9).
Arm_UserEnvCallFatal(code) ==
    IF Exception(code) = "IllegalInstruction" THEN "illegal_instruction"
    ELSE IF code \in {8, SupervisorEnvCall} THEN "SupervisorEnvCall"
    ELSE IF Exception(code) = "Unknown" THEN HvArm(code)
    ELSE "hs_forward_exception"

\* The arm of trap_exception's match (lines 86-159) that an exception code
\* selects.
Arm(code) ==
    LET e == Exception(code) IN
    IF e = "IllegalInstruction" THEN "illegal_instruction"
    ELSE IF e = "SupervisorEnvCall" THEN "SupervisorEnvCall"
    ELSE IF e = "Unknown" THEN HvArm(code)
    ELSE "hs_forward_exception"

\* trap_exception, line 86: the match on the cause.
trap_exception ==
    /\ pc = "trap_exception"
    /\ pc' = Arm(csr.scause)
    /\ UNCHANGED <<locked, boot, hypervisor_data, context, csr, fault_inst, zicfiss,
                   ss_mem, zicfiss_ops, trap, ss_hist, done, panic_msg>>

\* line 89
SupervisorEnvCallArm ==
    /\ pc = "SupervisorEnvCall"
    /\ Panic("SupervisorEnvCall should be handled by M-mode")
    /\ UNCHANGED <<locked, boot, hypervisor_data, context, csr, fault_inst, zicfiss,
                   ss_mem, zicfiss_ops, trap, ss_hist, done>>

\* lines 97-99
InstructionGuestPageFaultArm ==
    /\ pc = "InstructionGuestPageFault"
    /\ Panic("Instruction guest-page fault")
    /\ UNCHANGED <<locked, boot, hypervisor_data, context, csr, fault_inst, zicfiss,
                   ss_mem, zicfiss_ops, trap, ss_hist, done>>

\* ------------------------------------------------------------------------
\* The guest context frame
\* ------------------------------------------------------------------------

xreg(ctx, index) == ctx.xreg[index]

set_xreg(ctx, index, value) == [ctx EXCEPT !.xreg[index] = value]

set_sepc(ctx, value) == [ctx EXCEPT !.sepc = value]

\* ------------------------------------------------------------------------
\* trap_exception: ecall, guest-page faults, forwarding
\* ------------------------------------------------------------------------

\* sbi_vs_mode_handler with the value of the SbiRet written to a2 (x12)
\* instead of a1 (x11).
sbi_vs_mode_handler_ValueInA2(ctx) ==
    LET ext_id == xreg(ctx, 17)
        func_id == xreg(ctx, 16)
        arguments == <<xreg(ctx, 10), xreg(ctx, 11), xreg(ctx, 12), xreg(ctx, 13),
                       xreg(ctx, 14)>>
        known == ext_id \in {W(EID_BASE), W(EID_RFNC), W(EID_FWFT)}
        sbiret == IF ext_id = W(EID_BASE) THEN sbi_base_handler(func_id)
                  ELSE IF ext_id = W(EID_RFNC) THEN sbi_rfnc_handler(func_id, arguments)
                  ELSE sbi_fwft_handler(func_id, arguments)
    IN  IF known
        THEN [panic |-> FALSE,
              context |-> set_xreg(set_xreg(ctx, 10, sbiret.error), 12, sbiret.value)]
        ELSE [panic |-> TRUE, context |-> ctx]

\* sbi_vs_mode_handler answering an unrecognized extension id with
\* SBI_ERR_NOT_SUPPORTED (-2) instead of panicking.
sbi_vs_mode_handler_NotSupported(ctx) ==
    LET ext_id == xreg(ctx, 17)
        func_id == xreg(ctx, 16)
        arguments == <<xreg(ctx, 10), xreg(ctx, 11), xreg(ctx, 12), xreg(ctx, 13),
                       xreg(ctx, 14)>>
        sbiret == IF ext_id = W(EID_BASE) THEN sbi_base_handler(func_id)
                  ELSE IF ext_id = W(EID_RFNC) THEN sbi_rfnc_handler(func_id, arguments)
                  ELSE IF ext_id = W(EID_FWFT) THEN sbi_fwft_handler(func_id, arguments)
                  ELSE SbiRet(MinusTwo, W(0))
    IN  [panic |-> FALSE,
         context |-> set_xreg(set_xreg(ctx, 10, sbiret.error), 11, sbiret.value)]

\* sbi_vs_mode_handler: the context after the call, or a panic.
sbi_vs_mode_handler(ctx) ==
    LET ext_id == xreg(ctx, 17)
        func_id == xreg(ctx, 16)
        arguments == <<xreg(ctx, 10), xreg(ctx, 11), xreg(ctx, 12), xreg(ctx, 13),
                       xreg(ctx, 14)>>
        known == ext_id \in {W(EID_BASE), W(EID_RFNC), W(EID_FWFT)}
        sbiret == IF ext_id = W(EID_BASE) THEN sbi_base_handler(func_id)
                  ELSE IF ext_id = W(EID_RFNC) THEN sbi_rfnc_handler(func_id, arguments)
                  ELSE sbi_fwft_handler(func_id, arguments)
    IN  IF known
        THEN [panic |-> FALSE,
              context |-> set_xreg(set_xreg(ctx, 10, sbiret.error), 11, sbiret.value)]
        ELSE [panic |-> TRUE, context |-> ctx]

\* The length trap_exception adds to sepc after an ecall (line 95).
EcallLength == W(4)

\* trap_exception, lines 92-96.  The guard of line 93 is a temporary: it is
\* dropped at the end of the statement.
EcallFromVsModeArm ==
    /\ pc = "EcallFromVsMode"
    /\ CanLock
    /\ LET r == sbi_vs_mode_handler(context) IN
       IF r.panic
       THEN /\ Panic("Unsupported SBI call")
            /\ UNCHANGED <<context, done>>
       ELSE /\ context' = set_sepc(r.context, Add64(r.context.sepc, EcallLength))
            /\ done' = [done EXCEPT !.emulated = "sbi"]
            /\ pc' = "hstrap_exit"
            /\ UNCHANGED panic_msg
    /\ UNCHANGED <<locked, boot, hypervisor_data, csr, fault_inst, zicfiss,
                   ss_mem, zicfiss_ops, trap, ss_hist>>

\* update_sepc_by_htinst_value without the test of bit 1: always 4 bytes.
update_sepc_AlwaysFour(htinst_inst_value, ctx) ==
    set_sepc(ctx, Add64(ctx.sepc, W(4)))

\* update_sepc_by_htinst_value
update_sepc_by_htinst_value(htinst_inst_value, ctx) ==
    IF ((htinst_inst_value \div 2) % 2) = 0
    THEN set_sepc(ctx, Add64(ctx.sepc, W(2)))
    ELSE set_sepc(ctx, Add64(ctx.sepc, W(4)))

\* HostPhysicalAddress(htval::read().bits << 2)
FaultAddr == Shl2(csr.htval)

\* trap_exception, lines 101-107 and 130-136: read htval and htinst, decode.
DecodeFaultInst ==
    /\ pc \in {"LoadGuestPageFault", "StoreAmoGuestPageFault"}
    /\ IF Decode(OrBit1(csr.htinst)).ok
       THEN /\ pc' = IF pc = "LoadGuestPageFault" THEN "load_emulate" ELSE "store_emulate"
            /\ UNCHANGED panic_msg
       ELSE Panic("decoding load fault instruction failed")
    /\ UNCHANGED <<locked, boot, hypervisor_data, context, csr, fault_inst, zicfiss,
                   ss_mem, zicfiss_ops, trap, ss_hist, done>>

\* The guard `hypervisor_data` of line 109 when the Err arm (line 126) calls
\* hs_forward_exception: it lives to the end of the block at line 128.
LoadErrGuard == TRUE

\* The same guard after the Ok arm: the block has ended.
LoadOkGuard == FALSE

\* trap_exception, lines 109-128.
LoadGuestPageFaultArm ==
    /\ pc = "load_emulate"
    /\ CanLock
    /\ LET inst == Decode(OrBit1(csr.htinst)) IN
       \E r \in EmulateRead(FaultAddr) :
         IF r.ok
         THEN IF inst.rd = None
              THEN /\ Panic("rd is not found")
                   /\ locked' = TRUE
                   /\ UNCHANGED <<context, done>>
              ELSE /\ context' = update_sepc_by_htinst_value(csr.htinst,
                                     set_xreg(context, inst.rd, U64FromU32(r.value)))
                   /\ done' = [done EXCEPT !.emulated = "load",
                                           !.sepc_updates = done.sepc_updates + 1,
                                           !.plic_value = r.value]
                   /\ locked' = LoadOkGuard
                   /\ pc' = "hstrap_exit"
                   /\ UNCHANGED panic_msg
         ELSE /\ done' = [done EXCEPT !.plic_err = r.err]
              /\ locked' = LoadErrGuard
              /\ pc' = "hs_forward_exception"
              /\ UNCHANGED <<context, panic_msg>>
    /\ UNCHANGED <<boot, hypervisor_data, csr, fault_inst, zicfiss, ss_mem, zicfiss_ops,
                    trap, ss_hist>>

\* The guard `hypervisor_data` of line 138 when line 154 calls
\* hs_forward_exception: it is dropped only in the Ok branch (line 150).
StoreErrGuard == TRUE

\* The guard of line 138 without the drop of line 150.
StoreOkGuard_NoDrop == TRUE

\* The same guard when the Ok branch calls hstrap_exit (drop at line 150).
StoreOkGuard == FALSE

\* trap_exception, lines 138-155.
StoreAmoGuestPageFaultArm ==
    /\ pc = "store_emulate"
    /\ CanLock
    /\ LET inst == Decode(OrBit1(csr.htinst))
           store_value == xreg(context, inst.rs2)
           narrowed == TryIntoU32(store_value)
       IN
       IF inst.rs2 = None
       THEN /\ Panic("rs2 is not found")
            /\ locked' = TRUE
            /\ UNCHANGED <<context, done>>
       ELSE IF ~narrowed.ok
       THEN /\ Panic("called Result::unwrap() on an Err value: TryFromIntError")
            /\ locked' = TRUE
            /\ UNCHANGED <<context, done>>
       ELSE \E r \in EmulateWrite(FaultAddr, narrowed.value) :
              IF r.ok
              THEN /\ context' = update_sepc_by_htinst_value(csr.htinst, context)
                   /\ done' = [done EXCEPT !.emulated = "store",
                                           !.sepc_updates = done.sepc_updates + 1]
                   /\ locked' = StoreOkGuard
                   /\ pc' = "hstrap_exit"
                   /\ UNCHANGED panic_msg
              ELSE /\ done' = [done EXCEPT !.plic_err = r.err]
                   /\ locked' = StoreErrGuard
                   /\ pc' = "hs_forward_exception"
                   /\ UNCHANGED <<context, panic_msg>>
    /\ UNCHANGED <<boot, hypervisor_data, csr, fault_inst, zicfiss, ss_mem, zicfiss_ops,
                    trap, ss_hist>>

\* hs_forward_exception with line 40 moved before the asm block of lines
\* 31-38: vsepc receives the sepc that was just overwritten.
hs_forward_exception_SepcFirst ==
    /\ pc = "hs_forward_exception"
    /\ CanLock
    /\ context' = set_sepc(context, csr.vstvec)
    /\ csr' = [csr EXCEPT !.vsepc = context'.sepc, !.vscause = csr.scause,
                          !.vstval = csr.stval]
    /\ done' = [done EXCEPT !.forwarded = TRUE]
    /\ locked' = FALSE
    /\ pc' = "hstrap_exit"
    /\ UNCHANGED <<boot, hypervisor_data, fault_inst, zicfiss, ss_mem, zicfiss_ops,
                    trap, ss_hist, panic_msg>>

\* hs_forward_exception: lock (line 30), write vsepc, vscause and vstval, set
\* the context's sepc to vstvec.  Its guard is a temporary; a guard the
\* caller still holds is dropped when the caller's block ends.
hs_forward_exception ==
    /\ pc = "hs_forward_exception"
    /\ CanLock
    /\ csr' = [csr EXCEPT !.vsepc = context.sepc, !.vscause = csr.scause,
                          !.vstval = csr.stval]
    /\ context' = set_sepc(context, csr.vstvec)
    /\ done' = [done EXCEPT !.forwarded = TRUE]
    /\ locked' = FALSE
    /\ pc' = "hstrap_exit"
    /\ UNCHANGED <<boot, hypervisor_data, fault_inst, zicfiss, ss_mem, zicfiss_ops,
                    trap, ss_hist, panic_msg>>

\* hstrap_exit: restore the frame and sret into the guest, which runs until
\* its next trap.
hstrap_exit ==
    /\ pc = "hstrap_exit"
    /\ Trap

\* ------------------------------------------------------------------------
\* Zicfiss emulation
\* ------------------------------------------------------------------------

\* VS-stage translation of the shadow-stack pointer: vsatp is 0 (Bare).
vs_stage_trans_addr(gva) == gva

\* G-stage translation: the guest's memory is identity-mapped.
g_stage_trans_addr(gpa) == gpa

\* Zicfiss::ssp_hp_ptr
ssp_hp_ptr(z) == g_stage_trans_addr(vs_stage_trans_addr(z.ssp))

\* read_volatile / write_volatile on shadow-stack memory
MemRead(mem, addr) == IF addr \in DOMAIN mem THEN mem[addr] ELSE W(0)

MemWrite(mem, addr, value) ==
    [a \in (DOMAIN mem) \cup {addr} |-> IF a = addr THEN value ELSE mem[a]]

\* core::mem::size_of::<usize>()
SizeOfUsize == W(8)

\* ss_push writing through the old ssp and decrementing afterwards.
ss_push_WriteFirst(z, mem, value) ==
    [zicfiss |-> [z EXCEPT !.ssp = Sub64(z.ssp, SizeOfUsize)],
     ss_mem |-> MemWrite(mem, ssp_hp_ptr(z), value)]

\* ss_push with byte_add in place of byte_sub.
ss_push_GrowUp(z, mem, value) ==
    LET z1 == [z EXCEPT !.ssp = Add64(z.ssp, SizeOfUsize)]
    IN  [zicfiss |-> z1, ss_mem |-> MemWrite(mem, ssp_hp_ptr(z1), value)]

\* Zicfiss::ss_push: the new Zicfiss state and memory.
ss_push(z, mem, value) ==
    LET z1 == [z EXCEPT !.ssp = Sub64(z.ssp, SizeOfUsize)]
    IN  [zicfiss |-> z1, ss_mem |-> MemWrite(mem, ssp_hp_ptr(z1), value)]

\* ss_pop incrementing ssp before it reads.
ss_pop_IncrementFirst(z, mem) ==
    LET z1 == [z EXCEPT !.ssp = Add64(z.ssp, SizeOfUsize)]
    IN  [pop_value |-> MemRead(mem, ssp_hp_ptr(z1)), zicfiss |-> z1]

\* Zicfiss::ss_pop: the popped value and the new Zicfiss state.
ss_pop(z, mem) ==
    [pop_value |-> MemRead(mem, ssp_hp_ptr(z)),
     zicfiss |-> [z EXCEPT !.ssp = Add64(z.ssp, SizeOfUsize)]]

\* is_ss_enable without the test of SPP.
is_ss_enable_IgnoreSpp(z, sstatus) == z.senv_sse

\* Zicfiss::is_ss_enable
is_ss_enable(z, sstatus) ==
    LET spp == Bit64(sstatus, 8)
    IN  IF spp = 0 THEN z.senv_sse ELSE z.henv_sse

\* illegal_instruction: decode stval and dispatch Zicfiss opcodes and Zicsr
\* accesses to the emulated CSRs; anything else is forwarded to the guest.
illegal_instruction ==
    /\ pc = "illegal_instruction"
    /\ pc' = IF fault_inst.opc \in ZicfissOpcodes THEN "zicfiss_instruction"
             ELSE IF fault_inst.opc \in ZicsrOpcodes /\ fault_inst.rs2 = CSR_SSP
             THEN "zicfiss_csr"
             ELSE IF fault_inst.opc \in ZicsrOpcodes /\ fault_inst.rs2 = CSR_SENVCFG
             THEN "zicfiss_csr_field"
             ELSE "hs_forward_exception"
    /\ UNCHANGED <<locked, boot, hypervisor_data, context, csr, fault_inst, zicfiss,
                   ss_mem, zicfiss_ops, trap, ss_hist, done, panic_msg>>

\* The guard of line 85 when SSPOPCHK calls pseudo_vs_exception (dropped at
\* lines 107 and 117).
PopMismatchGuard == FALSE

\* History record of one emulated SSPUSH or SSPOPCHK: the register value it
\* named, and SPP, ssp and senv_sse as they were before it.
SsEvent(op, value) ==
    [op |-> op, value |-> value, spp |-> Bit64(context.sstatus, 8),
     ssp |-> zicfiss.ssp, senv_sse |-> zicfiss.senv_sse]

\* Zicfiss::instruction
zicfiss_instruction ==
    /\ pc = "zicfiss_instruction"
    /\ CanLock
    /\ LET inst == fault_inst
           sstatus == context.sstatus
           enable == is_ss_enable(zicfiss, sstatus)
           return == /\ locked' = FALSE
                     /\ pc' = "emulated"
                     /\ UNCHANGED panic_msg
       IN
       IF inst.opc \in {"SSPUSH", "C_SSPUSH"}
       THEN LET push_value == xreg(context, IF inst.opc = "SSPUSH" THEN inst.rs2 ELSE inst.rd)
                pushed == ss_push(zicfiss, ss_mem, push_value)
            IN  /\ zicfiss' = IF enable THEN pushed.zicfiss ELSE zicfiss
                /\ ss_mem' = IF enable THEN pushed.ss_mem ELSE ss_mem
                /\ ss_hist' = <<SsEvent("push", push_value)>>
                /\ return
                /\ UNCHANGED context
       ELSE IF inst.opc \in {"SSPOPCHK", "C_SSPOPCHK"}
       THEN LET popped == ss_pop(zicfiss, ss_mem)
                expected_value ==
                    xreg(context, IF inst.opc = "SSPOPCHK" THEN inst.rs1 ELSE inst.rd)
            IN  /\ zicfiss' = IF enable THEN popped.zicfiss ELSE zicfiss
                /\ IF enable /\ popped.pop_value # expected_value
                   THEN /\ locked' = PopMismatchGuard
                        /\ pc' = "pseudo_vs_exception"
                        /\ UNCHANGED panic_msg
                   ELSE return
                /\ ss_hist' = IF Len(ss_hist) = 1 /\ ss_hist[1].op = "push"
                               THEN Append(ss_hist, SsEvent("popchk", expected_value))
                               ELSE <<SsEvent("popchk", expected_value)>>
                /\ UNCHANGED <<context, ss_mem>>
       ELSE IF inst.opc = "SSRDP"
       THEN /\ context' = set_xreg(context, inst.rd, IF enable THEN zicfiss.ssp ELSE W(0))
            /\ return
            /\ UNCHANGED <<zicfiss, ss_mem, ss_hist>>
       ELSE /\ Panic("not yet implemented")
            /\ locked' = TRUE
            /\ UNCHANGED <<context, zicfiss, ss_mem, ss_hist>>
    /\ UNCHANGED <<boot, hypervisor_data, csr, fault_inst, zicfiss_ops, trap, done>>

\* CsrData::write / set / clear as the Zicsr opcode selects them.
CsrUpdate(opc, old, operand) ==
    IF opc \in {"CSRRW", "CSRRWI"} THEN operand
    ELSE IF opc \in {"CSRRS", "CSRRSI"} THEN Or64(old, operand)
    ELSE And64(old, Not64(operand))

\* The source operand of a Zicsr instruction: xreg(rs1), or the immediate
\* that raki keeps in rs1.
CsrOperand(ctx, inst) ==
    IF inst.opc \in {"CSRRW", "CSRRS", "CSRRC"} THEN xreg(ctx, inst.rs1) ELSE W(inst.rs1)

\* Zicfiss::csr reading rs1 after it has written rd.
zicfiss_csr_RdFirst ==
    /\ pc = "zicfiss_csr"
    /\ CanLock
    /\ IF fault_inst.rs2 = CSR_SSP
       THEN /\ context' = set_xreg(context, fault_inst.rd, zicfiss.ssp)
            /\ zicfiss' = [zicfiss EXCEPT !.ssp =
                              CsrUpdate(fault_inst.opc, zicfiss.ssp,
                                        CsrOperand(context', fault_inst))]
            /\ locked' = FALSE
            /\ pc' = "emulated"
            /\ UNCHANGED panic_msg
       ELSE /\ Panic("unsupported CSRs")
            /\ locked' = TRUE
            /\ UNCHANGED <<context, zicfiss>>
    /\ ss_hist' = <<>>
    /\ UNCHANGED <<boot, hypervisor_data, csr, fault_inst, ss_mem, zicfiss_ops,
                   trap, done>>

\* Zicfiss::csr
zicfiss_csr ==
    /\ pc = "zicfiss_csr"
    /\ CanLock
    /\ IF fault_inst.rs2 = CSR_SSP
       THEN /\ context' = set_xreg(context, fault_inst.rd, zicfiss.ssp)
            /\ zicfiss' = [zicfiss EXCEPT !.ssp =
                              CsrUpdate(fault_inst.opc, zicfiss.ssp,
                                        CsrOperand(context, fault_inst))]
            /\ locked' = FALSE
            /\ pc' = "emulated"
            /\ UNCHANGED panic_msg
       ELSE /\ Panic("unsupported CSRs")
            /\ locked' = TRUE
            /\ UNCHANGED <<context, zicfiss>>
    /\ ss_hist' = <<>>
    /\ UNCHANGED <<boot, hypervisor_data, csr, fault_inst, ss_mem, zicfiss_ops,
                   trap, done>>

\* Zicfiss::csr_field: the new Zicfiss state and *read_csr_value.
csr_field(z, inst, write_to_csr_value, read_csr_value) ==
    IF inst.rs2 = CSR_SENVCFG
    THEN [read_csr_value |->
              Or64(read_csr_value, IF z.senv_sse THEN W(8) ELSE W(0)),
          zicfiss |->
              IF Bit64(write_to_csr_value, 3) = 1
              THEN [z EXCEPT !.senv_sse = inst.opc \in {"CSRRW", "CSRRS", "CSRRWI", "CSRRSI"}]
              ELSE z]
    ELSE [read_csr_value |-> read_csr_value, zicfiss |-> z]

\* A Zicsr access to senvcfg: the CSR itself is read and written as usual,
\* csr_field overlays the emulated SSE bit, rd receives the value read.
zicfiss_csr_field ==
    /\ pc = "zicfiss_csr_field"
    /\ CanLock
    /\ LET operand == CsrOperand(context, fault_inst)
           r == csr_field(zicfiss, fault_inst, operand, csr.senvcfg)
       IN  /\ zicfiss' = r.zicfiss
           /\ context' = set_xreg(context, fault_inst.rd, r.read_csr_value)
           /\ csr' = [csr EXCEPT !.senvcfg = CsrUpdate(fault_inst.opc, csr.senvcfg, operand)]
    /\ pc' = "emulated"
    /\ ss_hist' = <<>>
    /\ UNCHANGED <<locked, boot, hypervisor_data, fault_inst, ss_mem, zicfiss_ops,
                   trap, done, panic_msg>>

\* After an emulated instruction: step sepc over it and leave the handler.
emulated ==
    /\ pc = "emulated"
    /\ CanLock
    /\ context' = set_sepc(context, Add64(context.sepc, W(fault_inst.len)))
    /\ done' = [done EXCEPT !.emulated = "instruction"]
    /\ pc' = "hstrap_exit"
    /\ UNCHANGED <<locked, boot, hypervisor_data, csr, fault_inst, zicfiss, ss_mem,
                   zicfiss_ops, trap, ss_hist, panic_msg>>

\* pseudo_vs_exception(cause, tval): deliver a VS-level exception to the
\* guest and leave the handler.
pseudo_vs_exception ==
    /\ pc = "pseudo_vs_exception"
    /\ CanLock
    /\ csr' = [csr EXCEPT !.vsepc = context.sepc, !.vscause = SOFTWARE_CHECK_EXCEPTION,
                          !.vstval = W(SHADOW_STACK_FAULT)]
    /\ context' = set_sepc(context, csr.vstvec)
    /\ done' = [done EXCEPT !.emulated = "pseudo_vs_exception"]
    /\ pc' = "hstrap_exit"
    /\ UNCHANGED <<locked, boot, hypervisor_data, fault_inst, zicfiss, ss_mem, zicfiss_ops,
                    trap, ss_hist, panic_msg>>

\* Values of the host's time CSR.
Times == {W(1000000)}

\* virtual_instruction: rdtime reads the host's time; anything else is fatal.
virtual_instruction ==
    /\ pc = "virtual_instruction"
    /\ CanLock
    /\ IF fault_inst.opc = "RDTIME"
       THEN /\ \E t \in Times :
                 context' = set_sepc(set_xreg(context, fault_inst.rd, t),
                                     Add64(context.sepc, W(4)))
            /\ done' = [done EXCEPT !.emulated = "rdtime"]
            /\ pc' = "hstrap_exit"
            /\ UNCHANGED panic_msg
       ELSE /\ Panic("unsupported virtual instruction")
            /\ UNCHANGED <<context, done>>
    /\ UNCHANGED <<locked, boot, hypervisor_data, csr, fault_inst, zicfiss, ss_mem,
                   zicfiss_ops, trap, ss_hist>>

\* ------------------------------------------------------------------------
\* The specification
\* ------------------------------------------------------------------------

Next ==
    \/ hstart /\ UNCHANGED <<page_table_vars, plic>>
    \/ vsmode_setup_lock /\ UNCHANGED <<page_table_vars, plic>>
    \/ vsmode_setup /\ UNCHANGED <<page_table_vars, plic>>
    \/ hart_entry /\ UNCHANGED <<page_table_vars, plic>>
    \/ hart_entry_sret /\ UNCHANGED <<page_table_vars, plic>>
    \/ trap_exception /\ UNCHANGED <<page_table_vars, init_vars, plic>>
    \/ SupervisorEnvCallArm /\ UNCHANGED <<page_table_vars, init_vars, plic>>
    \/ InstructionGuestPageFaultArm /\ UNCHANGED <<page_table_vars, init_vars, plic>>
    \/ EcallFromVsModeArm /\ UNCHANGED <<page_table_vars, init_vars, plic>>
    \/ DecodeFaultInst /\ UNCHANGED <<page_table_vars, init_vars, plic>>
    \/ LoadGuestPageFaultArm /\ UNCHANGED <<page_table_vars, init_vars, plic>>
    \/ StoreAmoGuestPageFaultArm /\ UNCHANGED <<page_table_vars, init_vars, plic>>
    \/ hs_forward_exception /\ UNCHANGED <<page_table_vars, init_vars, plic>>
    \/ illegal_instruction /\ UNCHANGED <<page_table_vars, init_vars, plic>>
    \/ zicfiss_instruction /\ UNCHANGED <<page_table_vars, init_vars, plic>>
    \/ zicfiss_csr /\ UNCHANGED <<page_table_vars, init_vars, plic>>
    \/ zicfiss_csr_field /\ UNCHANGED <<page_table_vars, init_vars, plic>>
    \/ emulated /\ UNCHANGED <<page_table_vars, init_vars, plic>>
    \/ pseudo_vs_exception /\ UNCHANGED <<page_table_vars, init_vars, plic>>
    \/ virtual_instruction /\ UNCHANGED <<page_table_vars, init_vars, plic>>
    \/ hstrap_exit /\ UNCHANGED <<page_table_vars, init_vars, plic>>

Spec == Init /\ [][Next]_vars

\* ------------------------------------------------------------------------
\* A guest that executes a sequence of Zicfiss instructions
\* ------------------------------------------------------------------------

\* How many instructions that change the Zicfiss state the sequence holds.
MaxZicfissSeq == 3

\* The guest's shadow stack: the 4 KiB region [0x8010_0000, 0x8010_1000).
\* An empty stack has ssp = ShadowStackTop.
ShadowStackBase == W4(0, 0, 32784, 0)
ShadowStackTop == W4(0, 0, 32784, 4096)

\* The guest's registers at a Zicfiss instruction: x1 (ra) keeps its
\* sentinel; x5 (t0) is the top of the shadow stack or equals x1; x6 has
\* bit 3 (SSE) set or clear.
ZicfissRegFiles ==
    {[Sentinel EXCEPT ![5] = ShadowStackTop, ![6] = W(8)],
     [Sentinel EXCEPT ![5] = Sentinel[1], ![6] = W(1)]}

\* The guest's sstatus at the trap: from VU-mode (SPP = 0) or VS-mode (SPP = 1).
ZicfissSstatus == {W4(0, 2, 4, 0), W4(0, 2, 4, 256)}

\* The instructions of the sequence.  A Zicsr instruction may name the same
\* register as rd and rs1; CSRRWI writes the immediate 8 (SSE) or 0.
ZicfissInsts ==
    {Inst("SSPUSH", None, None, 5, 4), Inst("C_SSPUSH", 1, None, None, 2),
     Inst("SSPOPCHK", None, 5, None, 4), Inst("C_SSPOPCHK", 5, None, None, 2),
     Inst("SSRDP", 7, None, None, 4), Inst("SSAMOSWAP_W", 7, 5, 6, 4)}
    \cup {Inst(o, rd, 5, CSR_SSP, 4) : o \in {"CSRRW", "CSRRS", "CSRRC"}, rd \in {5, 7}}
    \cup {Inst(o, 7, 8, CSR_SSP, 4) : o \in {"CSRRWI", "CSRRSI", "CSRRCI"}}
    \cup {Inst(o, 7, 6, CSR_SENVCFG, 4) : o \in {"CSRRW", "CSRRS", "CSRRC"}}
    \cup {Inst(o, 7, 8, CSR_SENVCFG, 4) : o \in {"CSRRWI", "CSRRSI", "CSRRCI"}}
    \cup {Inst("CSRRWI", 7, 0, CSR_SENVCFG, 4), Inst("OTHER", None, None, None, 4)}

\* The state in which hart_entry enters the guest on HART 0, with the
\* Zicfiss state of Zicfiss::new.
ZicfissInit ==
    /\ pc = "sret"
    /\ locked = FALSE
    /\ boot = [hart_id |-> 0, dtb_addr |-> 1]
    /\ hypervisor_data =
           register_guest([current_hart |-> 0, devices |-> TRUE,
                           guest |-> [h \in 0..(MAX_HART_NUM - 1) |-> NoGuest]],
                          Guest_new(0, memory_region(0))).data
    /\ context = [xreg |-> Sentinel, sepc |-> GuestDramBase, sstatus |-> InitSstatus]
    /\ csr = ZeroCsr
    /\ fault_inst = NoInst
    /\ zicfiss = [ssp |-> W(0), henv_sse |-> FALSE, senv_sse |-> FALSE]
    /\ ss_mem = <<>>
    /\ zicfiss_ops = 0
    /\ trap = context
    /\ done = [Fresh EXCEPT !.trapped = FALSE]
    /\ panic_msg = ""
    /\ ss_hist = <<>>
    /\ init_calls = vsmode_setup_calls \o hart_entry_calls \o <<"sret">>
    /\ entry_csr = [sstatus |-> frame_word(context, 32), sepc |-> frame_word(context, 33)]
    /\ page_table = EmptyTable
    /\ memory_map = <<>>
    /\ page_table_calls = <<>>
    /\ devices = NoDevices
    /\ guest_elf = <<>>
    /\ guest_image = NotLoaded
    /\ plic = PlicReset

\* The guest runs to its next Zicfiss (or other illegal) instruction, which
\* traps; the history of the shadow stack is kept.
ZicfissTrap ==
    /\ pc \in {"sret", "hstrap_exit"}
    /\ \E regs \in ZicfissRegFiles, sstatus \in ZicfissSstatus, inst \in ZicfissInsts :
           /\ ChangesZicfiss(inst) => zicfiss_ops < MaxZicfissSeq
           /\ context' = [xreg |-> regs, sepc |-> W4(0, 0, 32768, 8194),
                           sstatus |-> sstatus]
           /\ csr' = [csr EXCEPT !.scause = IllegalInstruction, !.stval = W(0),
                                  !.htval = W(0), !.htinst = 0,
                                  !.vstvec = W4(0, 0, 32768, 512),
                                  !.vsepc = W(0), !.vscause = 0, !.vstval = W(0)]
           /\ fault_inst' = inst
           /\ zicfiss_ops' = IF ChangesZicfiss(inst) THEN zicfiss_ops + 1 ELSE zicfiss_ops
    /\ trap' = context'
    /\ done' = Fresh
    /\ pc' = "trap_exception"
    /\ UNCHANGED <<locked, boot, hypervisor_data, zicfiss, ss_mem, panic_msg, ss_hist>>

ZicfissNext ==
    \/ ZicfissTrap /\ UNCHANGED <<page_table_vars, init_vars, plic>>
    \/ trap_exception /\ UNCHANGED <<page_table_vars, init_vars, plic>>
    \/ illegal_instruction /\ UNCHANGED <<page_table_vars, init_vars, plic>>
    \/ zicfiss_instruction /\ UNCHANGED <<page_table_vars, init_vars, plic>>
    \/ zicfiss_csr /\ UNCHANGED <<page_table_vars, init_vars, plic>>
    \/ zicfiss_csr_field /\ UNCHANGED <<page_table_vars, init_vars, plic>>
    \/ emulated /\ UNCHANGED <<page_table_vars, init_vars, plic>>
    \/ pseudo_vs_exception /\ UNCHANGED <<page_table_vars, init_vars, plic>>
    \/ hs_forward_exception /\ UNCHANGED <<page_table_vars, init_vars, plic>>

ZicfissSpec == ZicfissInit /\ [][ZicfissNext]_vars

\* ------------------------------------------------------------------------
\* Calls of generate_page_table on the G-stage table of HART 0
\* ------------------------------------------------------------------------

\* How many calls of generate_page_table one run makes on the same root.
MaxPageTableCalls == 2

\* 1 GiB identity regions with 1 GiB-aligned endpoints, and the same
\* regions with a 4 KiB tail.
GiBRegions ==
    {IdentityMap(Address(g * 262144, 0), Address((g + 1) * 262144, 0), PteFlagsRwx) :
        g \in {1, 2}}
GiBRegionsWithTail ==
    {IdentityMap(m.virt.start, AddrAdd(m.virt.end, PAGE_SIZE), m.flags) : m \in GiBRegions}

\* A guest segment [0x8000_0000, 0x8020_2000) mapped to itself, and the
\* tail map setup_g_stage_page_table_from_elf adds after it.
SegmentMap ==
    IdentityMap(Address(524288, 0), Address(524802, 0),
                Dirty + Accessed + Exec + Read + User + Valid)
TailMap == IdentityMap(Address(524802, 0), Address(1048575, 4095), PteFlagsRwx)

\* Maps whose host range is not the guest range: 2 MiB at 0x8040_0000 to
\* 0xa040_0000, and three pages at 0x8060_0000 to 0xa000_1000.
RemapMap == MemoryMap(Address(525312, 0), Address(525824, 0),
                      Address(656384, 0), Address(656896, 0), PteFlagsRwx)
SkewMap == MemoryMap(Address(525824, 0), Address(525827, 0),
                     Address(655361, 0), Address(655364, 0),
                     Dirty + Accessed + Read + User + Valid)

\* Device maps: one VirtIO slot [0x1000_1000, 0x1000_2000) and the UART
\* [0x1000_0000, 0x1000_0100).
VirtIOMap == IdentityMap(Address(65537, 0), Address(65538, 0), PTE_FLAGS_FOR_DEVICE)
UartMap == IdentityMap(Address(65536, 0), Address(65536, 256), PTE_FLAGS_FOR_DEVICE)

\* Maps that overlap another one: the first page of the segment with
\* other flags, and the VirtIO slot with another target.
OverlappingMaps ==
    {IdentityMap(Address(524288, 0), Address(524289, 0), Read + User + Valid),
     MemoryMap(Address(65537, 0), Address(65538, 0),
               Address(65538, 0), Address(65539, 0), PTE_FLAGS_FOR_DEVICE)}

\* The page-aligned maps.
AlignedMaps ==
    GiBRegions \cup GiBRegionsWithTail
        \cup {SegmentMap, RemapMap, SkewMap, VirtIOMap} \cup OverlappingMaps

\* The map lists handed to generate_page_table: one map, the same map
\* twice (create_device_map pushes every VirtIO map twice), the list of
\* setup_g_stage_page_table_from_elf and lists with overlapping maps.
MemoryMapLists ==
    {<<m>> : m \in AlignedMaps \cup {UartMap, TailMap}}
        \cup {<<m, m>> : m \in AlignedMaps}
        \cup {<<SegmentMap, TailMap>>, <<VirtIOMap, VirtIOMap, UartMap>>,
              <<RemapMap, SkewMap, VirtIOMap>>}
        \cup {<<m, o>> : m \in {SegmentMap, VirtIOMap}, o \in OverlappingMaps}

\* A caller hands a list of maps to generate_page_table, which runs to its
\* end or to its fatal error.
GeneratePageTable ==
    /\ ~page_table.fatal
    /\ Len(page_table_calls) < MaxPageTableCalls
    /\ \E maps \in MemoryMapLists :
           /\ memory_map' = maps
           /\ page_table' = generate_page_table(page_table, PageTableStart, maps)
           /\ page_table_calls' = Append(page_table_calls, maps)
    /\ UNCHANGED <<hart_vars, plic, devices, guest_elf, guest_image>>

PageTableInit == Init /\ boot = [hart_id |-> 0, dtb_addr |-> 1]

PageTableNext == GeneratePageTable

PageTableSpec == PageTableInit /\ [][PageTableNext]_vars

\* ------------------------------------------------------------------------
\* The G-stage maps of the guest of one HART
\* ------------------------------------------------------------------------

\* A program header of the guest ELF.
ProgramHeader(p_type, p_flags, p_paddr, p_filesz, p_memsz, p_align) ==
    [p_type |-> p_type, p_flags |-> p_flags, p_paddr |-> p_paddr,
     p_filesz |-> p_filesz, p_memsz |-> p_memsz, p_align |-> p_align]

\* One RWX segment at 0 of 0x2000 bytes.
RwxHeader == ProgramHeader(PT_LOAD, 7, 0, 8192, 8192, 4096)

\* Text of 0x1800 bytes at 0, and data at 0x2000 of 0x1100 bytes in memory.
TextHeader == ProgramHeader(PT_LOAD, 5, 0, 6144, 6144, 4096)
DataHeader == ProgramHeader(PT_LOAD, 6, 8192, 256, 4352, 4096)

\* Read-only data, a segment aligned to 2 MiB, flags with bits above the
\* low three, a segment without file content, a note, a segment without
\* the read permission and a segment aligned to one byte.
ProgramHeaders ==
    {RwxHeader, TextHeader, DataHeader,
     ProgramHeader(PT_LOAD, 4, 16384, 100, 100, 4096),
     ProgramHeader(PT_LOAD, 7, 0, 8192, 8192, 2097152),
     ProgramHeader(PT_LOAD, 13, 0, 4096, 4096, 4096),
     ProgramHeader(PT_LOAD, 6, 32768, 0, 4096, 4096),
     ProgramHeader(4, 4, 0, 64, 64, 4),
     ProgramHeader(PT_LOAD, 1, 0, 4096, 4096, 4096),
     ProgramHeader(PT_LOAD, 6, 8192, 4660, 4660, 1)}

\* The guest ELFs: one segment, text and another segment, and data before
\* text.
GuestElfs ==
    {<<h>> : h \in ProgramHeaders}
        \cup {<<TextHeader, h>> : h \in ProgramHeaders \ {TextHeader}}
        \cup {<<DataHeader, TextHeader>>}

\* A device as Device::new reads it from the device tree.
Device(base_addr, sz) == [base_addr |-> base_addr, size |-> sz]

\* The VirtIO slots [0x1000_1000 + k * 0x1000, +0x1000).
VirtIOSlot(k) == Device(Address(65537 + k, 0), 4096)

\* The initrd of /chosen: 0x2345 bytes at 0x8400_0000, or 2 MiB at
\* 0x8800_0000.
Initrds == {Device(Address(540672, 0), 9029), Device(Address(557056, 0), 2097152)}

\* The devices of the device tree: UART [0x1000_0000, +0x100), PLIC
\* [0x0c00_0000, +0x60_0000), CLINT [0x0200_0000, +0x10_0000), PCI
\* [0x3000_0000, +0x1000_0000), up to two VirtIO slots and the initrd.
DeviceTrees ==
    {[uart |-> Device(Address(65536, 0), 256),
      virtio |-> v,
      initrd |-> i,
      plic |-> Device(Address(49152, 0), 6291456),
      clint |-> Device(Address(8192, 0), 1048576),
      pci |-> Device(Address(196608, 0), 268435456)] :
        v \in {<<>>, <<VirtIOSlot(0)>>, <<VirtIOSlot(0), VirtIOSlot(1)>>},
        i \in Initrds}

\* register_devices parses the device tree and minimal_parse the ELF the
\* initrd holds, before any G-stage map is built.
RegisterDevices ==
    /\ devices = NoDevices
    /\ page_table_calls = <<>>
    /\ \E d \in DeviceTrees, e \in GuestElfs :
           /\ devices' = <<d>>
           /\ guest_elf' = e
    /\ UNCHANGED <<hart_vars, plic, page_table, memory_map, page_table_calls, guest_image>>

\* Guest::load_guest_elf, called by vsmode_setup before the G-stage table
\* is built. A segment below the first one overflows the subtraction: the
\* build with overflow checks panics, the build without them copies to the
\* wrapped address.
LoadGuestElf ==
    /\ devices # NoDevices
    /\ ~page_table.fatal
    /\ ~guest_image.loaded
    /\ page_table_calls = <<>>
    /\ LET r == load_guest_elf(guest_memory_begin(boot.hart_id), guest_elf)
       IN  \/ /\ guest_image' = [loaded |-> TRUE, copies |-> r.copies]
              /\ UNCHANGED page_table
           \/ /\ r.overflow
              /\ page_table' = [page_table EXCEPT !.fatal = TRUE]
              /\ UNCHANGED guest_image
    /\ UNCHANGED <<hart_vars, plic, devices, guest_elf, memory_map, page_table_calls>>

\* Guest::setup_g_stage_page_table_from_elf: builds the vector of maps and
\* hands it to generate_page_table, or panics on a segment whose flags it
\* does not support.
SetupGStagePageTableFromElf ==
    /\ devices # NoDevices
    /\ guest_image.loaded
    /\ ~page_table.fatal
    /\ page_table_calls = <<>>
    /\ LET r == elf_memory_map(guest_memory_begin(boot.hart_id), guest_elf)
       IN  IF r.panic
           THEN /\ page_table' = [page_table EXCEPT !.fatal = TRUE]
                /\ UNCHANGED <<memory_map, page_table_calls>>
           ELSE /\ memory_map' = r.memory_map
                /\ page_table' = generate_page_table(page_table, PageTableStart,
                                                     r.memory_map)
                /\ page_table_calls' = Append(page_table_calls, r.memory_map)
    /\ UNCHANGED <<hart_vars, plic, devices, guest_elf, guest_image>>

\* Devices::device_mapping_g_stage, seen on its own: create_device_map and
\* generate_page_table on the root of the HART.
DeviceMappingGStage ==
    /\ devices # NoDevices
    /\ ~page_table.fatal
    /\ Len(page_table_calls) < MaxPageTableCalls
    /\ LET maps == create_device_map(devices[1])
       IN  /\ memory_map' = maps
           /\ page_table' = generate_page_table(page_table, PageTableStart, maps)
           /\ page_table_calls' = Append(page_table_calls, maps)
    /\ UNCHANGED <<hart_vars, plic, devices, guest_elf, guest_image>>

GStageNext ==
    \/ RegisterDevices
    \/ LoadGuestElf
    \/ SetupGStagePageTableFromElf
    \/ DeviceMappingGStage

GStageSpec == PageTableInit /\ [][GStageNext]_vars

\* ------------------------------------------------------------------------
\* The guest and the devices on one PLIC context
\* ------------------------------------------------------------------------

\* A device raises the interrupt of a source.
PlicInterrupt ==
    /\ \E n \in PlicIrqs \ plic.pending :
           plic' = [plic EXCEPT !.pending = @ \cup {n},
                                !.last = [op |-> "interrupt", value |-> n,
                                          alone |-> FALSE]]
    /\ UNCHANGED <<hart_vars, page_table_vars>>

\* The guest stores to the priority register of a source.
PlicWritePriority ==
    /\ \E n \in PlicIrqs, v \in PlicPriorities :
           plic' = [plic EXCEPT !.priority[n] = v,
                                !.last = [op |-> "priority", value |-> v,
                                          alone |-> FALSE]]
    /\ UNCHANGED <<hart_vars, page_table_vars>>

\* The guest stores to the enables bitmap of the context.
PlicWriteEnable ==
    /\ \E e \in SUBSET PlicIrqs :
           plic' = [plic EXCEPT !.enables = e,
                                !.last = [op |-> "enable", value |-> Cardinality(e),
                                          alone |-> FALSE]]
    /\ UNCHANGED <<hart_vars, page_table_vars>>

\* The guest loads from the claim register: the load faults and
\* trap_exception has the emulator read it.
PlicReadClaim ==
    /\ plic' = plic_claim(plic)
    /\ UNCHANGED <<hart_vars, page_table_vars>>

\* The guest stores to the claim/complete register: the store faults and
\* trap_exception has the emulator write it.
PlicWriteComplete ==
    /\ \E v \in PlicIrqs \cup {0} : plic' = plic_complete(plic, v)
    /\ UNCHANGED <<hart_vars, page_table_vars>>

PlicNext ==
    \/ PlicInterrupt
    \/ PlicWritePriority
    \/ PlicWriteEnable
    \/ PlicReadClaim
    \/ PlicWriteComplete

PlicSpec == ZicfissInit /\ [][PlicNext]_vars

\* ------------------------------------------------------------------------
\* Calls of ss_push and ss_pop on one shadow stack
\* ------------------------------------------------------------------------

\* How many calls of ss_push and ss_pop one run makes.
MaxShadowStackCalls == 4

\* The ssp the calls start from: the top of the guest's shadow stack, and 8,
\* from which the second push wraps below zero.
InitialSsps == {ShadowStackTop, W(8)}

\* The values pushed.
PushValues == {W(1), W4(65535, 0, 0, 2)}

\* What the memory around the shadow stack holds before the calls: nothing,
\* or a word at ssp (above every push), a word in the slot of the first
\* push and a word far below.
InitialMemories(ssp) ==
    {<<>>,
     MemWrite(MemWrite(MemWrite(<<>>, ssp, W(170)), Sub64(ssp, SizeOfUsize), W(187)),
              Sub64(ssp, W(4096)), W(204))}

\* How many pushes of the calls have not been popped.
RECURSIVE Depth(_)
Depth(calls) ==
    IF calls = <<>> THEN 0
    ELSE Depth(SubSeq(calls, 1, Len(calls) - 1))
             + (IF calls[Len(calls)].op = "push" THEN 1 ELSE -1)

ShadowStackInit ==
    /\ pc = "sret"
    /\ locked = FALSE
    /\ boot = [hart_id |-> 0, dtb_addr |-> 1]
    /\ hypervisor_data =
           register_guest([current_hart |-> 0, devices |-> TRUE,
                           guest |-> [h \in 0..(MAX_HART_NUM - 1) |-> NoGuest]],
                          Guest_new(0, memory_region(0))).data
    /\ context = [xreg |-> Sentinel, sepc |-> GuestDramBase, sstatus |-> InitSstatus]
    /\ csr = ZeroCsr
    /\ fault_inst = NoInst
    /\ \E ssp \in InitialSsps :
           /\ zicfiss = [ssp |-> ssp, henv_sse |-> TRUE, senv_sse |-> TRUE]
           /\ ss_mem \in InitialMemories(ssp)
    /\ zicfiss_ops = 0
    /\ trap = context
    /\ done = [Fresh EXCEPT !.trapped = FALSE]
    /\ panic_msg = ""
    /\ ss_hist = [ssp |-> zicfiss.ssp, ss_mem |-> ss_mem, calls |-> <<>>]
    /\ init_calls = vsmode_setup_calls \o hart_entry_calls \o <<"sret">>
    /\ entry_csr = [sstatus |-> frame_word(context, 32), sepc |-> frame_word(context, 33)]
    /\ page_table = EmptyTable
    /\ memory_map = <<>>
    /\ page_table_calls = <<>>
    /\ devices = NoDevices
    /\ guest_elf = <<>>
    /\ guest_image = NotLoaded
    /\ plic = PlicReset

\* One call of Zicfiss::ss_push.
SsPush ==
    /\ Len(ss_hist.calls) < MaxShadowStackCalls
    /\ \E value \in PushValues :
           LET r == ss_push(zicfiss, ss_mem, value)
           IN  /\ zicfiss' = r.zicfiss
               /\ ss_mem' = r.ss_mem
               /\ ss_hist' = [ss_hist EXCEPT !.calls =
                                  Append(@, [op |-> "push", value |-> value])]
    /\ UNCHANGED <<pc, locked, boot, hypervisor_data, context, csr, fault_inst,
                   zicfiss_ops, trap, done, panic_msg, init_vars, page_table_vars, plic>>

\* One call of Zicfiss::ss_pop, on a stack that holds a pushed value.
SsPop ==
    /\ Len(ss_hist.calls) < MaxShadowStackCalls
    /\ Depth(ss_hist.calls) > 0
    /\ LET r == ss_pop(zicfiss, ss_mem)
       IN  /\ zicfiss' = r.zicfiss
           /\ ss_hist' = [ss_hist EXCEPT !.calls =
                              Append(@, [op |-> "pop", value |-> r.pop_value])]
    /\ UNCHANGED <<pc, locked, boot, hypervisor_data, context, csr, fault_inst, ss_mem,
                   zicfiss_ops, trap, done, panic_msg, init_vars, page_table_vars, plic>>

ShadowStackNext ==
    \/ SsPush
    \/ SsPop

ShadowStackSpec == ShadowStackInit /\ [][ShadowStackNext]_vars

\* ------------------------------------------------------------------------
\* Calls of register_guest and guest on HYPERVISOR_DATA
\* ------------------------------------------------------------------------

\* How many calls of register_guest and guest one run makes.
MaxHypervisorDataCalls == 3

\* The hart ids of the guests handed to register_guest: every slot, and two
\* ids past the last one.
GuestIds == 0..(MAX_HART_NUM + 1)

\* The memory regions a guest of that id is created with.
GuestRegions(id) == {memory_region(id), memory_region(id + 1)}

\* One call of HypervisorData::register_guest; init_calls keeps the calls
\* and what they were given or returned.
RegisterGuest ==
    /\ panic_msg = ""
    /\ Len(init_calls) < MaxHypervisorDataCalls
    /\ \E id \in GuestIds :
           \E region \in GuestRegions(id) :
               LET new_guest == Guest_new(id, region)
                   r == register_guest(hypervisor_data, new_guest)
               IN  /\ hypervisor_data' = r.data
                   /\ init_calls' = Append(init_calls, [op |-> "register_guest",
                                                        guest |-> <<new_guest>>])
                   /\ IF r.panic # "" THEN Panic(r.panic)
                      ELSE UNCHANGED <<pc, panic_msg>>
    /\ UNCHANGED <<locked, boot, context, csr, fault_inst, zicfiss, ss_mem,
                   zicfiss_ops, trap, done, ss_hist, entry_csr, page_table_vars, plic>>

\* One call of HypervisorData::guest.
GuestCall ==
    /\ panic_msg = ""
    /\ Len(init_calls) < MaxHypervisorDataCalls
    /\ LET r == guest(hypervisor_data)
       IN  /\ init_calls' = Append(init_calls, [op |-> "guest", guest |-> r.guest])
           /\ IF r.panic # "" THEN Panic(r.panic)
              ELSE UNCHANGED <<pc, panic_msg>>
    /\ UNCHANGED <<locked, boot, hypervisor_data, context, csr, fault_inst, zicfiss,
                   ss_mem, zicfiss_ops, trap, done, ss_hist, entry_csr, page_table_vars,
                   plic>>

HypervisorDataNext ==
    \/ RegisterGuest
    \/ GuestCall

HypervisorDataSpec == PageTableInit /\ [][HypervisorDataNext]_vars

\* ------------------------------------------------------------------------
\* Properties
\* ------------------------------------------------------------------------

\* The program points that call HYPERVISOR_DATA.lock().
LockCallSites ==
    {"vsmode_setup_lock", "hart_entry", "EcallFromVsMode", "load_emulate",
     "store_emulate", "hs_forward_exception", "zicfiss_instruction", "zicfiss_csr"}

\* The extension ids sbi_vs_mode_handler recognizes.
KnownEids == {W(EID_BASE), W(EID_RFNC), W(EID_FWFT)}

\* The causes trap_exception sends to the `_` arm of line 158.
ForwardedCauses == {0, 1, 3, 4, 5, 6, 7, 8, 12, 13, 15}

\* Bit 1 of the htinst value of the current trap.
HtinstBit1 == (csr.htinst \div 2) % 2

\* C1: once hs_forward_exception has run, vsepc is the sepc the context held
\* at trap time, vscause is scause, vstval is stval and the context's sepc is
\* the guest's vstvec.
C1_ForwardProtocol ==
    done.forwarded =>
        /\ csr.vsepc = trap.sepc
        /\ csr.vscause = csr.scause
        /\ csr.vstval = csr.stval
        /\ context.sepc = csr.vstvec

\* A breakpoint (cause 3) has been forwarded.
C1_Witness ==
    /\ pc = "hstrap_exit"
    /\ done.forwarded
    /\ csr.scause = 3

\* C2: no program point that locks HYPERVISOR_DATA is reached while the HART
\* still holds a guard on it.
C2_NoRelockWhileHeld ==
    pc \in LockCallSites => ~locked

\* C3: a trap never blocks: as long as the hypervisor has not panicked, some
\* step of the handler (or the return to the guest) is possible.
C3_TrapNeverBlocks ==
    (done.trapped /\ pc # "panic") => ENABLED Next

\* C4: a load guest-page fault that PLIC emulation rejects goes through
\* hs_forward_exception, and after it the guest sees vsepc = the faulting pc,
\* vscause = 21, vstval = stval and sepc = vstvec, with no register written.
C4_LoadFaultForwarded ==
    (done.trapped /\ csr.scause = LoadGuestPageFault /\ done.plic_err # "") =>
        /\ pc \in {"hs_forward_exception", "hstrap_exit"}
        /\ pc = "hs_forward_exception" => ENABLED hs_forward_exception
        /\ pc = "hstrap_exit" =>
              /\ done.forwarded
              /\ csr.vsepc = trap.sepc
              /\ csr.vscause = LoadGuestPageFault
              /\ csr.vstval = csr.stval
              /\ context.sepc = csr.vstvec
              /\ context.xreg = trap.xreg
              /\ done.sepc_updates = 0

\* C5: after an ecall with a recognized extension id, every register but x10
\* and x11 is as it was at the trap, x10 and x11 hold the SbiRet, and sepc is
\* 4 more than at the trap.
C5_EcallFrame ==
    (pc = "hstrap_exit" /\ csr.scause = EcallFromVsMode
        /\ trap.xreg[17] \in KnownEids) =>
        /\ \A r \in Regs \ {10, 11} : context.xreg[r] = trap.xreg[r]
        /\ LET a == <<trap.xreg[10], trap.xreg[11], trap.xreg[12], trap.xreg[13],
                      trap.xreg[14]>>
               ret == IF trap.xreg[17] = W(EID_BASE)
                      THEN sbi_base_handler(trap.xreg[16])
                      ELSE IF trap.xreg[17] = W(EID_RFNC)
                      THEN sbi_rfnc_handler(trap.xreg[16], a)
                      ELSE sbi_fwft_handler(trap.xreg[16], a)
           IN  /\ context.xreg[10] = ret.error
               /\ context.xreg[11] = ret.value
        /\ context.sepc = Add64(trap.sepc, W(4))
        /\ context.sstatus = trap.sstatus

\* An FWFT ecall has returned.
C5_Witness ==
    /\ pc = "hstrap_exit"
    /\ csr.scause = EcallFromVsMode
    /\ trap.xreg[17] = W(EID_FWFT)
    /\ done.emulated = "sbi"

\* C6: at the sret of hart_entry and at every hstrap_exit the lock is free.
C6_LockFreeAtGuestEntry ==
    pc \in {"sret", "hstrap_exit"} => ~locked

\* hstrap_exit is reached after an emulated store, whose arm took the lock.
C6_Witness ==
    /\ pc = "hstrap_exit"
    /\ done.emulated = "store"

\* C7: an ecall with an unrecognized extension id panics, leaves the context
\* as it was at the trap, and the hypervisor never leaves the panic.
C7_UnknownEidFatal ==
    /\ [](panic_msg = "Unsupported SBI call" =>
             /\ pc = "panic"
             /\ context = trap
             /\ trap.xreg[17] \notin KnownEids)
    /\ [][(pc = "EcallFromVsMode" /\ context.xreg[17] \notin KnownEids) =>
             (pc' = "panic" /\ context' = context)]_vars
    /\ [][pc = "panic" => pc' = "panic"]_vars

\* The hypervisor has panicked on an unrecognized extension id.
C7_Witness ==
    /\ pc = "panic"
    /\ panic_msg = "Unsupported SBI call"
    /\ csr.scause = EcallFromVsMode

\* C8 as stated: every cause other than 2, 10, 20, 21, 22 and 23 is
\* forwarded and returns to the guest, and none of them panics.
C8_AllOthersForwarded ==
    (done.trapped /\ csr.scause \notin {2, 10, 20, 21, 22, 23}) =>
        /\ pc # "panic"
        /\ pc = "hs_forward_exception" => ENABLED hs_forward_exception
        /\ pc = "hstrap_exit" => done.forwarded

\* C8 amended: causes 0, 1, 3..8, 12, 13 and 15 are forwarded with the
\* forward-to-guest protocol and return to the guest without a panic; cause 9
\* (SupervisorEnvCall) panics and is not forwarded.
C8_OthersForwardedBut9 ==
    /\ (done.trapped /\ csr.scause \in ForwardedCauses) =>
          /\ pc \in {"trap_exception", "hs_forward_exception", "hstrap_exit"}
          /\ pc = "hs_forward_exception" => ENABLED hs_forward_exception
          /\ pc = "hstrap_exit" =>
                /\ done.forwarded
                /\ csr.vsepc = trap.sepc
                /\ csr.vscause = csr.scause
                /\ csr.vstval = csr.stval
                /\ context.sepc = csr.vstvec
    /\ (done.trapped /\ csr.scause = SupervisorEnvCall) =>
          /\ pc \in {"trap_exception", "SupervisorEnvCall", "panic"}
          /\ ~done.forwarded
          /\ pc = "SupervisorEnvCall" => ENABLED SupervisorEnvCallArm

\* An instruction page fault (cause 12) has been forwarded.
C8_Witness ==
    /\ pc = "hstrap_exit"
    /\ csr.scause = 12
    /\ done.forwarded

\* C9: after an emulated load or store sepc has been updated once, by 2 when
\* bit 1 of htinst is 0 and by 4 when it is 1.
C9_SepcAdvance ==
    (pc = "hstrap_exit" /\ done.emulated \in {"load", "store"}) =>
        /\ done.sepc_updates = 1
        /\ HtinstBit1 = 0 => context.sepc = Add64(trap.sepc, W(2))
        /\ HtinstBit1 = 1 => context.sepc = Add64(trap.sepc, W(4))

\* A compressed store has been emulated.
C9_Witness ==
    /\ pc = "hstrap_exit"
    /\ done.emulated = "store"
    /\ HtinstBit1 = 0

\* C10: a store guest-page fault that PLIC emulation rejects goes through
\* hs_forward_exception (vsepc = faulting pc, vscause = 23, sepc = vstvec)
\* with sepc not advanced; an emulated store is not forwarded.
C10_StoreFaultForwarded ==
    /\ (done.trapped /\ csr.scause = StoreAmoGuestPageFault /\ done.plic_err # "") =>
          /\ pc \in {"hs_forward_exception", "hstrap_exit"}
          /\ pc = "hs_forward_exception" => ENABLED hs_forward_exception
          /\ pc = "hstrap_exit" =>
                /\ done.forwarded
                /\ csr.vsepc = trap.sepc
                /\ csr.vscause = StoreAmoGuestPageFault
                /\ context.sepc = csr.vstvec
                /\ done.sepc_updates = 0
    /\ done.emulated = "store" => ~done.forwarded

\* The SSPOPCHK opcodes and the SSPUSH opcodes.
PopChkOpcodes == {"SSPOPCHK", "C_SSPOPCHK"}
PushOpcodes == {"SSPUSH", "C_SSPUSH"}

\* The pseudo VS-exception has been raised in this trap.
Raised == done.emulated = "pseudo_vs_exception"

\* The handler of a SSPOPCHK that directly followed a SSPUSH has finished.
PushThenPopChkDone ==
    /\ pc = "hstrap_exit"
    /\ fault_inst.opc \in PopChkOpcodes
    /\ Len(ss_hist) = 2

\* The shadow stack is enabled for the privilege the current trap came from.
EnabledForTrap ==
    IF Bit64(context.sstatus, 8) = 0 THEN zicfiss.senv_sse ELSE zicfiss.henv_sse

\* The register a SSPUSH or SSPOPCHK names.
NamedReg ==
    IF fault_inst.opc \in {"SSPUSH"} THEN fault_inst.rs2
    ELSE IF fault_inst.opc = "SSPOPCHK" THEN fault_inst.rs1
    ELSE fault_inst.rd

\* C11 as stated: with senvcfg bit 3 set, a SSPUSH followed by a SSPOPCHK
\* at the same privilege raises the pseudo VS-exception (cause 18, tval 3)
\* exactly when the two register values differ.
C11_PushPopChk ==
    (PushThenPopChkDone /\ ss_hist[1].senv_sse /\ ss_hist[1].spp = ss_hist[2].spp) =>
        /\ Raised <=> ss_hist[2].value # ss_hist[1].value
        /\ Raised => (csr.vscause = 18 /\ csr.vstval = W(3))

\* C11 amended: the same, when both instructions trap from VU-mode
\* (sstatus.SPP = 0); when both trap from VS-mode (SPP = 1) nothing is raised.
C11_PushPopChkFromVU ==
    (PushThenPopChkDone /\ ss_hist[1].senv_sse) =>
        /\ (ss_hist[1].spp = 0 /\ ss_hist[2].spp = 0) =>
              /\ Raised <=> ss_hist[2].value # ss_hist[1].value
              /\ Raised => (csr.vscause = 18 /\ csr.vstval = W(3))
        /\ (ss_hist[1].spp = 1 /\ ss_hist[2].spp = 1) => ~Raised

\* A value pushed from VU-mode has been popped and checked against the same
\* value without an exception.
C11_Witness ==
    /\ PushThenPopChkDone
    /\ ss_hist[1].senv_sse
    /\ ss_hist[1].spp = 0
    /\ ss_hist[2].spp = 0
    /\ ss_hist[2].value = ss_hist[1].value
    /\ ~Raised

\* C12: an enabled SSPOPCHK / C.SSPOPCHK adds 8 to ssp and raises the pseudo
\* VS-exception (cause 18, tval 3) exactly when the word at the old ssp
\* differs from the named register; a disabled one changes nothing and
\* raises nothing.
C12_PopChk ==
    /\ [][(pc = "zicfiss_instruction" /\ fault_inst.opc \in PopChkOpcodes) =>
            IF EnabledForTrap
            THEN /\ zicfiss'.ssp = Add64(zicfiss.ssp, W(8))
                 /\ pc' \in {"emulated", "pseudo_vs_exception"}
                 /\ pc' = "pseudo_vs_exception" <=>
                        MemRead(ss_mem, zicfiss.ssp) # context.xreg[NamedReg]
                 /\ context' = context
            ELSE /\ zicfiss' = zicfiss
                 /\ context' = context
                 /\ pc' = "emulated"]_vars
    /\ [](Raised => (csr.vscause = 18 /\ csr.vstval = W(3)))

\* A C.SSPOPCHK has raised the pseudo VS-exception.
C12_Witness ==
    /\ pc = "hstrap_exit"
    /\ fault_inst.opc = "C_SSPOPCHK"
    /\ Raised
    /\ zicfiss.ssp = Add64(ss_hist[Len(ss_hist)].ssp, W(8))

\* C13: an enabled SSPUSH / C.SSPUSH subtracts 8 from ssp and writes the
\* named register at the new ssp, leaving the rest of memory; a disabled one
\* changes neither ssp nor memory.
C13_Push ==
    [][(pc = "zicfiss_instruction" /\ fault_inst.opc \in PushOpcodes) =>
          IF EnabledForTrap
          THEN /\ zicfiss'.ssp = Sub64(zicfiss.ssp, W(8))
               /\ MemRead(ss_mem', g_stage_trans_addr(vs_stage_trans_addr(zicfiss'.ssp)))
                     = context.xreg[NamedReg]
               /\ \A a \in DOMAIN ss_mem :
                     a # g_stage_trans_addr(vs_stage_trans_addr(zicfiss'.ssp))
                        => MemRead(ss_mem', a) = ss_mem[a]
          ELSE /\ zicfiss' = zicfiss
               /\ ss_mem' = ss_mem]_vars

\* x5 has been pushed on the stack whose top the guest set to ShadowStackTop.
C13_Witness ==
    /\ pc = "emulated"
    /\ fault_inst.opc = "SSPUSH"
    /\ Len(ss_hist) = 1
    /\ ss_hist[1].ssp = ShadowStackTop
    /\ zicfiss.ssp = W4(0, 0, 32784, 4088)
    /\ MemRead(ss_mem, zicfiss.ssp) = context.xreg[5]

\* C14: senv_sse is bit 3 of the value the CSR semantics leave in senvcfg.
C14_SseFollowsSenvcfg ==
    zicfiss.senv_sse <=> (Bit64(csr.senvcfg, 3) = 1)

\* C15: a Zicsr instruction on ssp gives rd the old ssp, changes no other
\* register, and leaves in ssp the operand (CSRRW/CSRRWI), old | operand
\* (CSRRS/CSRRSI) or old & ~operand (CSRRC/CSRRCI).
C15_SspCsr ==
    [][(pc = "zicfiss_csr" /\ fault_inst.rs2 = CSR_SSP) =>
          LET operand == IF fault_inst.opc \in {"CSRRW", "CSRRS", "CSRRC"}
                         THEN context.xreg[fault_inst.rs1]
                         ELSE W(fault_inst.rs1)
          IN  /\ context'.xreg[fault_inst.rd] = zicfiss.ssp
              /\ \A r \in Regs \ {fault_inst.rd} : context'.xreg[r] = context.xreg[r]
              /\ fault_inst.opc \in {"CSRRW", "CSRRWI"} => zicfiss'.ssp = operand
              /\ fault_inst.opc \in {"CSRRS", "CSRRSI"} =>
                    zicfiss'.ssp = Or64(zicfiss.ssp, operand)
              /\ fault_inst.opc \in {"CSRRC", "CSRRCI"} =>
                    zicfiss'.ssp = And64(zicfiss.ssp, Not64(operand))]_vars

\* csrrw x5, ssp, x5 has swapped x5 (the stack top) with the old ssp (0).
C15_Witness ==
    /\ pc = "emulated"
    /\ fault_inst = Inst("CSRRW", 5, 5, CSR_SSP, 4)
    /\ trap.xreg[5] = ShadowStackTop
    /\ zicfiss.ssp = ShadowStackTop
    /\ context.xreg[5] = W(0)

\* C16: SSRDP gives rd the ssp when the shadow stack is enabled for the
\* trapping privilege (SPP = 0: senv_sse, SPP = 1: henv_sse) and 0 when it
\* is not, and leaves ssp.
C16_Ssrdp ==
    [][(pc = "zicfiss_instruction" /\ fault_inst.opc = "SSRDP") =>
          /\ context'.xreg[fault_inst.rd] =
                IF Bit64(context.sstatus, 8) = 0
                THEN (IF zicfiss.senv_sse THEN zicfiss.ssp ELSE W(0))
                ELSE (IF zicfiss.henv_sse THEN zicfiss.ssp ELSE W(0))
          /\ \A r \in Regs \ {fault_inst.rd} : context'.xreg[r] = context.xreg[r]
          /\ zicfiss' = zicfiss]_vars

\* SSRDP from VU-mode has read a non-zero ssp.
C16_Witness ==
    /\ pc = "emulated"
    /\ fault_inst.opc = "SSRDP"
    /\ Bit64(context.sstatus, 8) = 0
    /\ zicfiss.senv_sse
    /\ zicfiss.ssp = ShadowStackTop
    /\ context.xreg[7] = ShadowStackTop

\* An address of the guest's shadow-stack region, its top included.
InShadowStack(a) == Le64(ShadowStackBase, a) /\ Le64(a, ShadowStackTop)

\* C17: pushes and pops that start with ssp inside the 4 KiB region leave
\* it inside, and a push never wraps ssp around the address space.
C17_BoundsChecked ==
    /\ (Len(ss_hist) >= 1 /\ InShadowStack(ss_hist[1].ssp)) => InShadowStack(zicfiss.ssp)
    /\ (Len(ss_hist) = 1 /\ ss_hist[1].op = "push") => Le64(zicfiss.ssp, ss_hist[1].ssp)

\* ------------------------------------------------------------------------
\* Properties of the page table engine
\* ------------------------------------------------------------------------

\* Every map of every call so far.
ProcessedMaps ==
    UNION {{page_table_calls[i][j] : j \in 1..Len(page_table_calls[i])} :
              i \in 1..Len(page_table_calls)}

\* The pages of a map's guest range at which the walk is compared: all of
\* them for a map of up to MaxWalkedPages pages, and for a larger map the
\* pages around its two ends and around the first and the last 2 MiB and
\* 1 GiB step inside it (a superpage leaf translates all its pages alike).
MaxWalkedPages == 1024

PagesChecked(m) ==
    LET first == m.virt.start[1]
        end == m.virt.end[1]
    IN  IF end - first <= MaxWalkedPages THEN first..(end - 1)
        ELSE {p \in UNION {(x - 2)..(x + 2) :
                              x \in {first, first + 512, first + 262144,
                                     end - 262144, end - 512, end}} :
                 first <= p /\ p < end}

\* walk(a) for a page of the map m is the page's host address with m's flags.
RoundTrip(m, p) ==
    walk(page_table.table, page_number(PageTableStart), Lv1GB, Address(p, 0))
        = [fault |-> FALSE,
           addr |-> AddrOffset(m.phys.start, <<p - m.virt.start[1], 0>>),
           flags |-> m.flags]

\* C18: after generate_page_table has processed its maps (it has returned,
\* that is, it has hit no fatal error), every page-aligned address of every
\* map's guest range walks to a leaf that translates it to the host address
\* at the same offset of the map's host range, with exactly the map's flags.
C18_RoundTrip ==
    ~page_table.fatal =>
        \A m \in ProcessedMaps : \A p \in PagesChecked(m) : RoundTrip(m, p)

\* Two calls have returned, with 1 GiB, 2 MiB and 4 KiB leaves and a host
\* range that is not the guest range.
C18_Witness ==
    /\ ~page_table.fatal
    /\ Len(page_table_calls) = 2
    /\ {RemapMap, SkewMap} \subseteq ProcessedMaps
    /\ ProcessedMaps \cap GiBRegionsWithTail # {}
    /\ \A m \in ProcessedMaps : \A p \in PagesChecked(m) : RoundTrip(m, p)

\* The pages holding the tables of a level, and the valid entries, the
\* leaves and the pointers in them.
RECURSIVE NodesAt(_)
EntriesIn(nodes) ==
    {k \in DOMAIN page_table.table :
        k[1] \in nodes /\ already_created(page_table.table[k])}
NodesAt(level) ==
    IF level = Lv1GB THEN {page_number(PageTableStart)}
    ELSE {pte(page_table.table[k]) :
             k \in {e \in EntriesIn(NodesAt(level + 1)) : ~IsLeaf(page_table.table[e])}}
EntriesAt(level) == EntriesIn(NodesAt(level))
LeavesAt(level) == {k \in EntriesAt(level) : IsLeaf(page_table.table[k])}

\* generate_page_table has been called once, on an empty table, with the
\* one map m.
MappedAlone(m) == page_table_calls = <<(<<m>>)>>

CallOf(maps) ==
    /\ ~page_table.fatal
    /\ memory_map' = maps
    /\ page_table_calls' = Append(page_table_calls, maps)

\* C20: generate_page_table is idempotent.  A call with the maps of the
\* call before it leaves the table and the allocator as they are and is not
\* fatal; a call with a list that holds the same map twice leaves what the
\* call with the map once leaves, and is fatal only if that one is.
C20_Idempotent ==
    [][/\ \A maps \in MemoryMapLists :
              (/\ CallOf(maps)
               /\ page_table_calls # <<>>
               /\ page_table_calls[Len(page_table_calls)] = maps)
                  => page_table' = page_table
       /\ \A m \in AlignedMaps :
              CallOf(<<m, m>>)
                  => page_table' = generate_page_table(page_table, PageTableStart, <<m>>)
      ]_vars

\* The duplicated VirtIO map has been mapped by two calls in a row, through
\* tables the first call allocated.
C20_Witness ==
    /\ page_table_calls = <<(<<VirtIOMap, VirtIOMap>>), (<<VirtIOMap, VirtIOMap>>)>>
    /\ ~page_table.fatal
    /\ page_table.allocated = 2
    /\ Cardinality(DOMAIN page_table.table) = 3

\* ------------------------------------------------------------------------
\* Properties of the initialisation path
\* ------------------------------------------------------------------------

\* The calls made so far.
Called == {init_calls[i] : i \in DOMAIN init_calls}

\* Every call of `a` made so far comes before every call of `b`.
Before(a, b) ==
    \A i, j \in DOMAIN init_calls :
        init_calls[i] = a /\ init_calls[j] = b => i < j

\* The calls that write G-stage PTEs.
PteWrites == {"setup_g_stage_page_table_from_elf", "device_mapping_g_stage"}

\* C21: during HS initialisation every write of a G-stage PTE (the ELF maps
\* and the device maps) comes before hgatp is set and before the
\* hfence.gvma, the fence comes before the first sret into the guest, and no
\* G-stage PTE is written between the last fence and the guest entry.
C21_FenceBeforeGuestEntry ==
    /\ \A w \in PteWrites : Before(w, "hgatp::set") /\ Before(w, "hfence_gvma_all")
    /\ Before("hfence_gvma_all", "sret")
    /\ "sret" \in Called =>
           /\ PteWrites \cup {"hgatp::set", "hfence_gvma_all"} \subseteq Called
           /\ \A w \in PteWrites : Before(w, "sret")

\* The HART is about to enter the guest for the first time, the table
\* written and fenced.
C21_Witness ==
    /\ pc = "sret"
    /\ PteWrites \cup {"hgatp::set", "hfence_gvma_all"} \subseteq Called

\* C26: the path that enters the guest restores sepc and sstatus each from
\* the slot of the context frame it is saved to (sepc at word 32, sstatus at
\* word 33).
C26_RestoredFromSavedSlots ==
    pc = "sret" =>
        /\ entry_csr.sepc = context.sepc
        /\ entry_csr.sstatus = context.sstatus

\* C30: on the initialisation path devices() is called only after
\* register_devices and guest() only after register_guest for the current
\* HART: neither "device data is uninitialized" nor "guest data not found"
\* is the panic of a HART that has not yet entered the guest.
C30_OptionsSetBeforeUse ==
    /\ \A j \in DOMAIN init_calls :
           /\ init_calls[j] = "devices" =>
                  \E i \in 1..(j - 1) : init_calls[i] = "register_devices"
           /\ init_calls[j] = "guest" =>
                  \E i \in 1..(j - 1) : init_calls[i] = "register_guest"
    /\ "sret" \notin Called =>
           panic_msg \notin {"device data is uninitialized", "guest data not found"}

\* The guest has been entered: devices() and guest() were called on the
\* way and both Options are Some.
C30_Witness ==
    /\ "sret" \in Called
    /\ {"devices", "guest"} \subseteq Called
    /\ hypervisor_data.devices
    /\ hypervisor_data.guest[hypervisor_data.current_hart] # NoGuest

\* ------------------------------------------------------------------------
\* Properties of panics and of the emulated load
\* ------------------------------------------------------------------------

\* C28: once the hypervisor has panicked the HART loops in wfi: it takes no
\* further step, so no trap is dispatched, no guest state is modified and
\* the guest is not entered again.
C28_PanicIsFinal ==
    panic_msg # "" => (pc = "panic" /\ ~ENABLED Next)

\* The hypervisor has panicked on an instruction guest-page fault.
C28_Witness ==
    /\ pc = "panic"
    /\ panic_msg = "Instruction guest-page fault"
    /\ csr.scause = InstructionGuestPageFault

\* C29: when the PLIC emulation of a guest load succeeds, the register rd
\* of the faulting instruction holds the 32-bit value emulate_read returned,
\* zero-extended, sepc has moved past the instruction, every other register
\* and sstatus are as at the trap, and nothing has been forwarded: vsepc,
\* vscause and vstval are not written.
C29_LoadEmulated ==
    (pc = "hstrap_exit" /\ done.emulated = "load") =>
        LET rd == Decode(OrBit1(csr.htinst)).rd
        IN  /\ context.xreg[rd] = <<done.plic_value[1], done.plic_value[2], 0, 0>>
            /\ \A r \in Regs \ {rd} : context.xreg[r] = trap.xreg[r]
            /\ context.sepc = Add64(trap.sepc, IF (csr.htinst \div 2) % 2 = 0
                                                THEN W(2) ELSE W(4))
            /\ context.sstatus = trap.sstatus
            /\ ~done.forwarded
            /\ csr.vsepc = W(0) /\ csr.vscause = 0 /\ csr.vstval = W(0)

\* A load of 0xffff_ffff from the PLIC has been emulated.
C29_Witness ==
    /\ pc = "hstrap_exit"
    /\ done.emulated = "load"
    /\ done.plic_value = <<65535, 65535>>
    /\ Decode(OrBit1(csr.htinst)).rd \in Regs

\* ------------------------------------------------------------------------
\* Properties of the PLIC emulation
\* ------------------------------------------------------------------------

ElfMapsHandedOver ==
    /\ memory_map # <<>>
    /\ memory_map[Len(memory_map)].virt.end = TailEnd

\* The segments a map is emitted for.
Loadable(h) == h.p_type = PT_LOAD /\ h.p_filesz > 0

\* Bit `flag` is set in the flag byte.
HasFlag(flags, flag) == (flags \div flag) % 2 = 1

\* The map of a segment: the identity on a range that starts at guest_base +
\* p_paddr, whose length is the multiple of p_align next to p_memsz, with D,
\* A, U, V and the permissions of p_flags (R = 4, W = 2, X = 1).
MapOfSegment(m, h) ==
    LET length == AddrSub(m.virt.end, m.virt.start)
        bytes == length[1] * PAGE_SIZE + length[2]
    IN  /\ m.phys = m.virt
        /\ m.virt.start = Address(524288 + (h.p_paddr \div PAGE_SIZE),
                                  h.p_paddr % PAGE_SIZE)
        /\ bytes % h.p_align = 0
        /\ bytes >= h.p_memsz
        /\ bytes - h.p_memsz < h.p_align
        /\ \A flag \in {Dirty, Accessed, User, Valid} : HasFlag(m.flags, flag)
        /\ HasFlag(m.flags, Read) <=> (h.p_flags \div 4) % 2 = 1
        /\ HasFlag(m.flags, Write) <=> (h.p_flags \div 2) % 2 = 1
        /\ HasFlag(m.flags, Exec) <=> h.p_flags % 2 = 1
        /\ m.flags < 256 /\ ~HasFlag(m.flags, 32)

\* C22: for every PT_LOAD segment with a non-zero file size,
\* setup_g_stage_page_table_from_elf emits an identity map that starts at
\* guest_base + p_paddr, is p_memsz rounded up to p_align long and carries
\* D, A, U, V and the R/W/X of p_flags; the single RWX segment with p_paddr
\* = 0 and p_memsz = 0x2000 gives [guest_base, guest_base + 0x2000) with
\* {D,A,X,W,R,U,V}.
C22_SegmentMaps ==
    ElfMapsHandedOver =>
        LET loadable == SelectSeq(guest_elf, Loadable)
        IN  /\ Len(memory_map) = Len(loadable) + 1
            /\ \A i \in 1..Len(loadable) : MapOfSegment(memory_map[i], loadable[i])
            /\ guest_elf = <<RwxHeader>> =>
                   memory_map[1] = IdentityMap(Address(524288, 0), Address(524290, 0),
                                               223)

\* The ELF of scenario S1 has been mapped.
C22_Witness ==
    /\ guest_elf = <<RwxHeader>>
    /\ ElfMapsHandedOver
    /\ Len(memory_map) = 2
    /\ memory_map[1].virt = [start |-> Address(524288, 0), end |-> Address(524290, 0)]

\* Two ranges share an address.
Overlap(a, b) == AddrLt(a.start, b.end) /\ AddrLt(b.start, a.end)

\* C23: no device region (uart, virtio, initrd, plic, clint, pci) overlaps
\* a region mapped as guest DRAM, the tail up to 0xffff_ffff included.
C23_NoOverlap ==
    devices # NoDevices =>
        LET dram == elf_memory_map(guest_memory_begin(boot.hart_id), guest_elf).memory_map
            device_mapping == create_device_map(devices[1])
        IN  \A i \in DOMAIN dram, j \in DOMAIN device_mapping :
                ~Overlap(dram[i].virt, device_mapping[j].virt)

\* C24: every MemoryMap handed to generate_page_table has a guest range and
\* a host range whose start and end are 4 KiB page-aligned.
C24_PageAligned ==
    \A i \in DOMAIN memory_map :
        /\ Aligned(memory_map[i].virt.start, PAGE_SIZE)
        /\ Aligned(memory_map[i].virt.end, PAGE_SIZE)
        /\ Aligned(memory_map[i].phys.start, PAGE_SIZE)
        /\ Aligned(memory_map[i].phys.end, PAGE_SIZE)

\* C25: every flag set of a G-stage leaf (each ELF permission case, the
\* tail map, the device flags) contains V and U, and A and D whenever it
\* contains W.
C25_LeafFlags ==
    \A i \in DOMAIN memory_map :
        LET flags == memory_map[i].flags
        IN  /\ HasFlag(flags, Valid)
            /\ HasFlag(flags, User)
            /\ HasFlag(flags, Write) => HasFlag(flags, Accessed) /\ HasFlag(flags, Dirty)

\* A read-only segment, a writable one and the tail have been mapped.
C25_Witness ==
    /\ ElfMapsHandedOver
    /\ Len(memory_map) = 3
    /\ ~HasFlag(memory_map[1].flags, Write)
    /\ HasFlag(memory_map[2].flags, Write)

\* ------------------------------------------------------------------------
\* Properties of the isolation of the guest memory (C31-C33)
\* ------------------------------------------------------------------------

\* Range a lies inside range b.
Within(a, b) == ~AddrLt(a.start, b.start) /\ ~AddrLt(b.end, a.end)

\* Address a lies in range r.
InRange(a, r) == ~AddrLt(a, r.start) /\ AddrLt(a, r.end)

\* C31: no map the ELF set-up asks the G-stage table to install has a host
\* range that leaves the memory_region of the guest (guest_memory_begin ..
\* guest_memory_begin + DRAM_SIZE_PER_GUEST) or that holds the page tables
\* of the hypervisor.
C31_InsideGuestRegion ==
    ElfMapsHandedOver =>
        \A i \in DOMAIN memory_map :
            /\ Within(memory_map[i].phys, memory_region(boot.hart_id))
            /\ ~InRange(PageTableStart, memory_map[i].phys)

\* C32: every segment load_guest_elf copies lands at the guest-physical
\* address the identity map of that segment starts at (guest_base +
\* p_paddr), whatever the p_paddr of the first segment, and its file bytes
\* stay inside that map.
C32_CopiedWhereMapped ==
    (guest_image.loaded /\ ElfMapsHandedOver) =>
        \A i \in DOMAIN guest_image.copies :
            LET copy == guest_image.copies[i]
            IN  /\ copy.dst = memory_map[i].virt.start
                /\ ~AddrLt(memory_map[i].virt.end, AddrAdd(copy.dst, copy.count))

\* C33: no map handed to generate_page_table for the G-stage table covers
\* an address of the PLIC region, so that every guest access to the PLIC
\* takes a guest-page fault and reaches the emulation.
C33_PlicNotMapped ==
    devices # NoDevices =>
        LET plic_region == memmap(devices[1].plic).virt
        IN  \A i \in DOMAIN memory_map : ~Overlap(memory_map[i].virt, plic_region)

\* ------------------------------------------------------------------------
\* Properties of the emulated store (C34)
\* ------------------------------------------------------------------------

\* C34: the emulation of a guest store to the PLIC never panics on the
\* value of rs2: whatever the upper 32 bits of the 64-bit register hold,
\* the low 32 bits go to emulate_write.
C34_StoreNeverPanics ==
    panic_msg # "called Result::unwrap() on an Err value: TryFromIntError"

\* ------------------------------------------------------------------------
\* Properties of the shadow stack (C35)
\* ------------------------------------------------------------------------

\* Every pop of the calls returned the value of the latest push that no
\* earlier pop had taken; `stack` holds the pushes not yet popped.
RECURSIVE PopsMatch(_, _)
PopsMatch(calls, stack) ==
    IF calls = <<>> THEN TRUE
    ELSE IF Head(calls).op = "push"
    THEN PopsMatch(Tail(calls), Append(stack, Head(calls).value))
    ELSE /\ stack # <<>>
         /\ Head(calls).value = stack[Len(stack)]
         /\ PopsMatch(Tail(calls), SubSeq(stack, 1, Len(stack) - 1))

\* The slots the pushes of the calls can have written.
PushedSlots == {Sub64(ss_hist.ssp, W(8 * k)) : k \in 1..Len(ss_hist.calls)}

\* C35: the shadow stack is last-in first-out: every ss_pop returns the
\* value of the matching ss_push (n pushes followed by n pops return the
\* values in reverse order), ssp is the initial ssp minus 8 for each value
\* still on the stack (so a push followed by a pop restores it), and every
\* word outside the slots of the pushes is untouched.
C35_Lifo ==
    /\ PopsMatch(ss_hist.calls, <<>>)
    /\ zicfiss.ssp = Sub64(ss_hist.ssp, W(8 * Depth(ss_hist.calls)))
    /\ \A a \in (DOMAIN ss_mem) \cup (DOMAIN ss_hist.ss_mem) :
           a \notin PushedSlots =>
               /\ a \in DOMAIN ss_hist.ss_mem
               /\ a \in DOMAIN ss_mem
               /\ ss_mem[a] = ss_hist.ss_mem[a]

\* Two different values were pushed from ssp = 8 and popped in reverse
\* order; the second push wrapped below zero and ssp is 8 again.
C35_Witness ==
    /\ ss_hist.ssp = W(8)
    /\ Len(ss_hist.calls) = 4
    /\ ss_hist.calls[1].op = "push"
    /\ ss_hist.calls[2].op = "push"
    /\ ss_hist.calls[1].value # ss_hist.calls[2].value
    /\ ss_hist.calls[3] = [op |-> "pop", value |-> ss_hist.calls[2].value]
    /\ ss_hist.calls[4] = [op |-> "pop", value |-> ss_hist.calls[1].value]
    /\ zicfiss.ssp = W(8)
    /\ ss_hist.ss_mem # <<>>

\* ------------------------------------------------------------------------
\* Properties of the guest slots of HYPERVISOR_DATA (C36)
\* ------------------------------------------------------------------------

\* The guest the latest register_guest of the calls was given for slot i
\* (NoGuest when there is none).
RECURSIVE LatestRegistered(_, _)
LatestRegistered(calls, i) ==
    IF calls = <<>> THEN NoGuest
    ELSE LET e == calls[Len(calls)]
         IN  IF e.op = "register_guest" /\ Guest_hart_id(e.guest[1]) = i
             THEN e.guest
             ELSE LatestRegistered(SubSeq(calls, 1, Len(calls) - 1), i)

====
